---------------------------- MODULE Spec2Model ----------------------------
(***************************************************************************)
(* A model of the document chunker of the NoCode-RAG-Assistant backend     *)
(* (backend/app/ingest/chunker.py).                                        *)
(*                                                                         *)
(* A text is a sequence of one-character strings.  The regular             *)
(* expressions of the chunker are modelled by scanning operators that      *)
(* follow Python's re semantics (leftmost match, greedy quantifiers,       *)
(* non-overlapping matches) on the alphabet the model draws texts from.    *)
(* A call of chunk_document is a small state machine: the chunker is       *)
(* constructed, the text is preprocessed, a strategy segments it, and the  *)
(* overlap/validation pass produces the returned list.                     *)
(*                                                                         *)
(* Of a chunk's metadata the model keeps chunk_index, start_char,          *)
(* end_char, chunk_type and has_overlap; word_count, sentence_count,       *)
(* has_title and section_header are computed by _create_chunk_data from    *)
(* the chunk text alone and are read by no operation of the chunker.       *)
(***************************************************************************)
EXTENDS Integers, Sequences, FiniteSets, TLC

(***************************************************************************)
(* Character classes (Python's re on the model's alphabet).                *)
(***************************************************************************)
\* [ \t]
Blank == {" ", "\t"}

\* \s, and the characters str.strip() and str.split() treat as whitespace
Space == {" ", "\t", "\n", "\f"}

\* [.!?]
Term == {".", "!", "?"}

\* [.!?;,:]
Punct == {".", "!", "?", ";", ",", ":"}

\* \w on ASCII: the letters, the digits and the underscore
WordChars ==
  {"a", "b", "c", "d", "e", "f", "g", "h", "i", "j", "k", "l", "m",
   "n", "o", "p", "q", "r", "s", "t", "u", "v", "w", "x", "y", "z",
   "A", "B", "C", "D", "E", "F", "G", "H", "I", "J", "K", "L", "M",
   "N", "O", "P", "Q", "R", "S", "T", "U", "V", "W", "X", "Y", "Z",
   "0", "1", "2", "3", "4", "5", "6", "7", "8", "9", "_"}

SetMax(S) == CHOOSE x \in S : \A y \in S : y <= x

SetMin(S) == CHOOSE x \in S : \A y \in S : x <= y

\* n copies of the character c
Rep(c, n) == [i \in 1..n |-> c]

RECURSIVE Flatten(_)
\* the concatenation of a sequence of texts
Flatten(ss) == IF ss = <<>> THEN <<>> ELSE Head(ss) \o Flatten(Tail(ss))

RECURSIVE RunEnd(_, _, _)
\* the first index j >= i with s[j] not in S (Len(s)+1 when there is none):
\* the end of the greedy match of [S]* at i
RunEnd(S, s, i) ==
  IF i > Len(s) THEN i
  ELSE IF s[i] \notin S THEN i
  ELSE RunEnd(S, s, i + 1)

\* str.strip()
Strip(s) ==
  LET keep == {i \in 1..Len(s) : s[i] \notin Space}
  IN IF keep = {} THEN <<>> ELSE SubSeq(s, SetMin(keep), SetMax(keep))

\* the parts of s between the matches (<<first, last>> index pairs, in order) of
\* a pattern: what re's split returns, empty parts included
SplitAt(s, matches) ==
  [k \in 1..(Len(matches) + 1) |->
     SubSeq(s, IF k = 1 THEN 1 ELSE matches[k - 1][2] + 1,
               IF k = Len(matches) + 1 THEN Len(s) ELSE matches[k][1] - 1)]

RECURSIVE SpaceMatches(_, _)
\* the maximal whitespace runs of s from index i on
SpaceMatches(s, i) ==
  IF i > Len(s) THEN <<>>
  ELSE IF s[i] \in Space
       THEN <<<<i, RunEnd(Space, s, i) - 1>>>> \o SpaceMatches(s, RunEnd(Space, s, i))
       ELSE SpaceMatches(s, i + 1)

\* str.split(): the maximal whitespace-free runs, in order
Split(s) == SelectSeq(SplitAt(s, SpaceMatches(s, 1)), LAMBDA part : part # <<>>)

RECURSIVE Join(_, _)
\* sep.join(parts)
Join(sep, parts) ==
  IF parts = <<>> THEN <<>>
  ELSE IF Len(parts) = 1 THEN parts[1]
  ELSE parts[1] \o sep \o Join(sep, Tail(parts))

\* seq[-n:] for n > 0
LastN(s, n) == IF Len(s) <= n THEN s ELSE SubSeq(s, Len(s) - n + 1, Len(s))

\* len(re.sub(r'[^\w]', '', text))
WordCharCount(s) == Cardinality({i \in 1..Len(s) : s[i] \in WordChars})

RECURSIVE SentenceMatches(_, _)
\* the matches of [.!?]+\s+ in s from index i on
SentenceMatches(s, i) ==
  IF i > Len(s) THEN <<>>
  ELSE LET j == RunEnd(Term, s, i)
       IN IF s[i] \in Term /\ j <= Len(s) /\ s[j] \in Space
          THEN <<<<i, RunEnd(Space, s, j) - 1>>>> \o SentenceMatches(s, RunEnd(Space, s, j))
          ELSE SentenceMatches(s, IF s[i] \in Term THEN j ELSE i + 1)

\* self.sentence_endings.split(text), sentence_endings = [.!?]+\s+
SentenceEndingsSplit(s) == SplitAt(s, SentenceMatches(s, 1))

RECURSIVE ParagraphMatches(_, _)
\* the matches of \n\s*\n in s from index i on: from a newline to the last
\* newline of the whitespace run it is in
ParagraphMatches(s, i) ==
  IF i > Len(s) THEN <<>>
  ELSE LET j == RunEnd(Space, s, i + 1)
           ks == {k \in (i + 1)..(j - 1) : s[k] = "\n"}
       IN IF s[i] = "\n" /\ ks # {}
          THEN <<<<i, SetMax(ks)>>>> \o ParagraphMatches(s, SetMax(ks) + 1)
          ELSE ParagraphMatches(s, i + 1)

\* self.paragraph_breaks.split(text), paragraph_breaks = \n\s*\n
ParagraphBreaksSplit(s) == SplitAt(s, ParagraphMatches(s, 1))

(***************************************************************************)
(* _preprocess_text: the substitutions, in the order of the code.          *)
(***************************************************************************)
RECURSIVE SubBlankRuns(_, _)
\* re.sub(r'[ \t]+', ' ', text)
SubBlankRuns(s, i) ==
  IF i > Len(s) THEN <<>>
  ELSE IF s[i] \in Blank THEN <<" ">> \o SubBlankRuns(s, RunEnd(Blank, s, i))
  ELSE <<s[i]>> \o SubBlankRuns(s, i + 1)

RECURSIVE SubBlanksAfterNewline(_, _)
\* re.sub(r'\n[ \t]+', '\n', text)
SubBlanksAfterNewline(s, i) ==
  IF i > Len(s) THEN <<>>
  ELSE IF s[i] = "\n" /\ i < Len(s) /\ s[i + 1] \in Blank
       THEN <<"\n">> \o SubBlanksAfterNewline(s, RunEnd(Blank, s, i + 1))
  ELSE <<s[i]>> \o SubBlanksAfterNewline(s, i + 1)

RECURSIVE SubBlanksBeforeNewline(_, _)
\* re.sub(r'[ \t]+\n', '\n', text)
SubBlanksBeforeNewline(s, i) ==
  IF i > Len(s) THEN <<>>
  ELSE LET j == RunEnd(Blank, s, i)
       IN IF s[i] \in Blank /\ j <= Len(s) /\ s[j] = "\n"
          THEN <<"\n">> \o SubBlanksBeforeNewline(s, j + 1)
          ELSE <<s[i]>> \o SubBlanksBeforeNewline(s, i + 1)

RECURSIVE SubNewlineRuns(_, _)
\* re.sub(r'\n{3,}', '\n\n', text)
SubNewlineRuns(s, i) ==
  IF i > Len(s) THEN <<>>
  ELSE LET j == RunEnd({"\n"}, s, i)
       IN IF j - i >= 3
          THEN <<"\n", "\n">> \o SubNewlineRuns(s, j)
          ELSE <<s[i]>> \o SubNewlineRuns(s, i + 1)

RECURSIVE SubSpaceBeforePunct(_, _)
\* re.sub(r'\s+([.!?;,:])', r'\1', text)
SubSpaceBeforePunct(s, i) ==
  IF i > Len(s) THEN <<>>
  ELSE LET j == RunEnd(Space, s, i)
       IN IF s[i] \in Space /\ j <= Len(s) /\ s[j] \in Punct
          THEN <<s[j]>> \o SubSpaceBeforePunct(s, j + 1)
          ELSE <<s[i]>> \o SubSpaceBeforePunct(s, i + 1)

RECURSIVE SubSpaceAfterTerm(_, _)
\* re.sub(r'([.!?])\s+', r'\1 ', text)
SubSpaceAfterTerm(s, i) ==
  IF i > Len(s) THEN <<>>
  ELSE IF s[i] \in Term /\ i < Len(s) /\ s[i + 1] \in Space
       THEN <<s[i], " ">> \o SubSpaceAfterTerm(s, RunEnd(Space, s, i + 1))
  ELSE <<s[i]>> \o SubSpaceAfterTerm(s, i + 1)

RECURSIVE SubFormFeed(_, _)
\* re.sub(r'\f', '\n\n', text)
SubFormFeed(s, i) ==
  IF i > Len(s) THEN <<>>
  ELSE IF s[i] = "\f" THEN <<"\n", "\n">> \o SubFormFeed(s, i + 1)
  ELSE <<s[i]>> \o SubFormFeed(s, i + 1)

\* DocumentChunker._preprocess_text
PreprocessText(text) ==
  LET t1 == SubBlankRuns(text, 1)
      t2 == SubBlanksAfterNewline(t1, 1)
      t3 == SubBlanksBeforeNewline(t2, 1)
      t4 == SubNewlineRuns(t3, 1)
      t5 == SubSpaceBeforePunct(t4, 1)
      t6 == SubSpaceAfterTerm(t5, 1)
      t7 == SubFormFeed(t6, 1)
  IN Strip(t7)


(***************************************************************************)
(* DocumentChunker.  `self' is the record of the chunker's three fields.   *)
(* A chunk is [text, metadata], as the dictionary _create_chunk_data       *)
(* returns.                                                                *)
(***************************************************************************)
\* Python's None
None == <<>>

\* an int argument n (the model passes arguments as None or Some(n))
Some(n) == <<n>>

\* `x or default' for an Optional[int] x: None and 0 are falsy
OrDefault(x, default) == IF x = None THEN default ELSE IF x[1] = 0 THEN default ELSE x[1]

\* DocumentChunker.__init__
NewChunker(settings, chunk_size, chunk_overlap, min_chunk_length) ==
  [chunk_size       |-> OrDefault(chunk_size, settings.chunk_size),
   chunk_overlap    |-> OrDefault(chunk_overlap, settings.chunk_overlap),
   min_chunk_length |-> OrDefault(min_chunk_length, settings.min_chunk_length)]

\* DocumentChunker._create_chunk_data
CreateChunkData(text, index, start_char, chunk_type) ==
  [text     |-> Strip(text),
   metadata |-> [chunk_index |-> index,
                 start_char  |-> start_char,
                 end_char    |-> start_char + Len(text),
                 chunk_type  |-> chunk_type]]

\* the word-level test `current_length + word_length <= self.chunk_size'
WordFits(self, current_length, word_length) ==
  current_length + word_length <= self.chunk_size

\* _split_overflow_text: `if current_chunk_words:' the words collected so far
\* become a chunk
SaveOverflowChunk(st, chunk_text) ==
  IF st.current_chunk_words = <<>> THEN st
  ELSE [st EXCEPT !.chunks = Append(@, CreateChunkData(chunk_text, st.chunk_index,
                                         st.start_char, "overflow")),
                  !.chunk_index = @ + 1,
                  !.start_char = @ + Len(chunk_text)]

\* _split_overflow_text: `current_chunk_words = [word]; current_length = word_length'
StartOverflowChunk(saved, word) ==
  [saved EXCEPT !.current_chunk_words = <<word>>, !.current_length = Len(word) + 1]

\* the body of the loop of _split_overflow_text for one word
OverflowStep(self, st, word) ==
  IF WordFits(self, st.current_length, Len(word) + 1)
  THEN [st EXCEPT !.current_chunk_words = Append(@, word),
                  !.current_length = @ + Len(word) + 1]
  ELSE StartOverflowChunk(SaveOverflowChunk(st, Join(<<" ">>, st.current_chunk_words)), word)

RECURSIVE OverflowLoop(_, _, _, _)
\* the loop of _split_overflow_text from the i-th word on
OverflowLoop(self, words, i, st) ==
  IF i > Len(words) THEN st
  ELSE OverflowLoop(self, words, i + 1, OverflowStep(self, st, words[i]))

\* the chunks of a finished loop of _split_overflow_text, the remaining words added
OverflowResult(st) == SaveOverflowChunk(st, Join(<<" ">>, st.current_chunk_words)).chunks

\* DocumentChunker._split_overflow_text
SplitOverflowText(self, text, start_index, start_char) ==
  OverflowResult(OverflowLoop(self, Split(text), 1,
    [chunks |-> <<>>, chunk_index |-> start_index, start_char |-> start_char,
     current_chunk_words |-> <<>>, current_length |-> 0]))

\* the sentence-level test `len(current_chunk) + len(sentence) <= self.chunk_size'
SentenceFits(self, current_chunk, sentence) ==
  Len(current_chunk) + Len(sentence) <= self.chunk_size

\* the sentence ending added back to every sentence but the last: `sentence += ". "'
SentenceEnding == <<".", " ">>

\* _split_by_sentences: `if current_chunk:' the sentences collected so far
\* become a chunk
SaveSentenceChunk(st) ==
  IF st.current_chunk = <<>> THEN st
  ELSE [st EXCEPT !.chunks = Append(@, CreateChunkData(st.current_chunk, st.chunk_index,
                                         st.char_offset, "sentence_group")),
                  !.chunk_index = @ + 1,
                  !.char_offset = @ + Len(st.current_chunk)]

\* _split_by_sentences: the chunks of a very long sentence are taken over
WithOverflowChunks(saved, overflow_chunks, sentence) ==
  [saved EXCEPT !.chunks = @ \o overflow_chunks,
                !.chunk_index = @ + Len(overflow_chunks),
                !.char_offset = @ + Len(sentence),
                !.current_chunk = <<>>]

\* _split_by_sentences: a sentence that does not fit the current chunk, which
\* has been saved
PlaceSentence(self, saved, sentence) ==
  IF Len(sentence) > self.chunk_size
  THEN WithOverflowChunks(saved,
         SplitOverflowText(self, sentence, saved.chunk_index, saved.char_offset), sentence)
  ELSE [saved EXCEPT !.current_chunk = sentence]

\* the body of the loop of _split_by_sentences for one sentence, stripped and
\* with its ending added back
SentenceStep(self, st, sentence) ==
  IF SentenceFits(self, st.current_chunk, sentence)
  THEN [st EXCEPT !.current_chunk = @ \o sentence]
  ELSE PlaceSentence(self, SaveSentenceChunk(st), sentence)

\* the sentence the loop of _split_by_sentences works with: stripped, the empty
\* ones skipped, `. ' added to all but the last
SentenceOf(sentences, i) ==
  IF Strip(sentences[i]) = <<>> THEN <<>>
  ELSE IF i < Len(sentences) THEN Strip(sentences[i]) \o SentenceEnding
  ELSE Strip(sentences[i])

RECURSIVE SentenceLoop(_, _, _, _)
\* the loop of _split_by_sentences from the i-th sentence on
SentenceLoop(self, sentences, i, st) ==
  IF i > Len(sentences) THEN st
  ELSE IF SentenceOf(sentences, i) = <<>> THEN SentenceLoop(self, sentences, i + 1, st)
  ELSE SentenceLoop(self, sentences, i + 1, SentenceStep(self, st, SentenceOf(sentences, i)))

\* DocumentChunker._split_by_sentences
SplitBySentences(self, text, start_index, start_char) ==
  SaveSentenceChunk(SentenceLoop(self, SentenceEndingsSplit(text), 1,
    [chunks |-> <<>>, current_chunk |-> <<>>,
     chunk_index |-> start_index, char_offset |-> start_char])).chunks

\* a variant of ParagraphFits: the two characters of the blank line not counted
ParagraphFitsNoSeparator(self, current_chunk, para) ==
  Len(current_chunk) + Len(para) <= self.chunk_size

\* the paragraph-level test `len(current_chunk) + len(para) + 2 <= self.chunk_size'
ParagraphFits(self, current_chunk, para) ==
  Len(current_chunk) + Len(para) + 2 <= self.chunk_size

\* the paragraphs the loop of _chunk_generic_text skips:
\* `not para or len(para) < self.min_chunk_length', para stripped
SkippedParagraph(self, para) == para = <<>> \/ Len(para) < self.min_chunk_length

\* _chunk_generic_text: `if current_chunk:' the paragraphs collected so far
\* become a chunk
SaveParagraphChunk(st) ==
  IF st.current_chunk = <<>> THEN st
  ELSE [st EXCEPT !.chunks = Append(@, CreateChunkData(st.current_chunk, st.chunk_index,
                                         st.start_char, "paragraph")),
                  !.chunk_index = @ + 1,
                  !.start_char = @ + Len(st.current_chunk)]

\* a variant of AfterLargeParagraph: the offset is not moved past the paragraph
AfterLargeParagraphStale(start_char, para) == start_char

\* _chunk_generic_text: `start_char += len(para)' after a large paragraph
AfterLargeParagraph(start_char, para) == start_char + Len(para)

\* _chunk_generic_text: the chunks of a large paragraph are taken over
WithSentenceChunks(saved, sentence_chunks, para) ==
  [saved EXCEPT !.chunks = @ \o sentence_chunks,
                !.chunk_index = @ + Len(sentence_chunks),
                !.start_char = AfterLargeParagraph(@, para),
                !.current_chunk = <<>>]

\* _chunk_generic_text: a paragraph that does not fit the current chunk, which
\* has been saved
PlaceParagraph(self, saved, para) ==
  IF Len(para) > self.chunk_size
  THEN WithSentenceChunks(saved,
         SplitBySentences(self, para, saved.chunk_index, saved.start_char), para)
  ELSE [saved EXCEPT !.current_chunk = para]

\* the body of the loop of _chunk_generic_text for one paragraph, stripped
ParagraphStep(self, st, para) ==
  IF SkippedParagraph(self, para) THEN st
  ELSE IF ParagraphFits(self, st.current_chunk, para)
  THEN [st EXCEPT !.current_chunk = IF @ # <<>> THEN @ \o <<"\n", "\n">> \o para ELSE para]
  ELSE PlaceParagraph(self, SaveParagraphChunk(st), para)

RECURSIVE ParagraphLoop(_, _, _, _)
\* the loop of _chunk_generic_text from the i-th paragraph on
ParagraphLoop(self, paragraphs, i, st) ==
  IF i > Len(paragraphs) THEN st
  ELSE ParagraphLoop(self, paragraphs, i + 1, ParagraphStep(self, st, Strip(paragraphs[i])))

\* DocumentChunker._chunk_generic_text
ChunkGenericText(self, text) ==
  SaveParagraphChunk(ParagraphLoop(self, ParagraphBreaksSplit(text), 1,
    [chunks |-> <<>>, current_chunk |-> <<>>, chunk_index |-> 0, start_char |-> 0])).chunks

\* DocumentChunker._chunk_structured_document
ChunkStructuredDocument(self, text) == ChunkGenericText(self, text)

\* DocumentChunker._chunk_pdf_style
ChunkPdfStyle(self, text) == ChunkGenericText(self, text)

(***************************************************************************)
(* Overlap and validation.                                                 *)
(***************************************************************************)
\* `len(text) < 20' in _find_good_overlap
MinOverlapLength == 20

\* `len(words) > 5' and `words[-5:]' in _find_good_overlap
OverlapWords == 5

\* `< 5' in _filter_valid_chunks
MinWordChars == 5

\* _find_good_overlap: `sentences[-1].strip()'
LastSentence(sentences) == Strip(sentences[Len(sentences)])

\* _find_good_overlap: the fall back to a word boundary
LastWords(text, words) ==
  IF Len(words) > OverlapWords THEN Join(<<" ">>, LastN(words, OverlapWords)) ELSE text

\* a variant of FindGoodOverlap: the length test after the sentence and the
\* word test
FindGoodOverlapBoundaryFirst(text) ==
  IF Len(SentenceEndingsSplit(text)) > 1 THEN LastSentence(SentenceEndingsSplit(text))
  ELSE IF Len(Split(text)) > OverlapWords THEN LastWords(text, Split(text))
  ELSE IF Len(text) < MinOverlapLength THEN <<>>
  ELSE text

\* DocumentChunker._find_good_overlap
FindGoodOverlap(text) ==
  IF Len(text) < MinOverlapLength THEN <<>>
  ELSE IF Len(SentenceEndingsSplit(text)) > 1 THEN LastSentence(SentenceEndingsSplit(text))
  ELSE LastWords(text, Split(text))

\* a variant of OverlapWindow: the slice forgotten, the whole previous chunk taken
OverlapWindowWhole(self, prev_chunk_text) == Strip(prev_chunk_text)

\* `prev_chunk_text[-self.chunk_overlap:].strip()', chunk_overlap > 0
OverlapWindow(self, prev_chunk_text) == Strip(LastN(prev_chunk_text, self.chunk_overlap))

\* the metadata with the key has_overlap set
WithHasOverlap(metadata, flag) ==
  [chunk_index |-> metadata.chunk_index,
   start_char  |-> metadata.start_char,
   end_char    |-> metadata.end_char,
   chunk_type  |-> metadata.chunk_type,
   has_overlap |-> flag]

\* _add_overlap_and_validate: `chunk_text = overlap_text + " " + chunk_text'
\* when the overlap text is not empty
WithOverlap(overlap_text, chunk_text) ==
  IF overlap_text # <<>> THEN overlap_text \o <<" ">> \o chunk_text ELSE chunk_text

\* the body of the loop of _add_overlap_and_validate for the chunk at (1-based)
\* position i; Python's i is i - 1
UpdatedChunk(self, chunks, i) ==
  [text     |-> IF i > 1 /\ self.chunk_overlap > 0
                THEN WithOverlap(FindGoodOverlap(OverlapWindow(self, chunks[i - 1].text)),
                                 chunks[i].text)
                ELSE chunks[i].text,
   metadata |-> WithHasOverlap(chunks[i].metadata, i > 1 /\ self.chunk_overlap > 0)]

\* the list _add_overlap_and_validate hands to _filter_valid_chunks
OverlappedChunks(self, chunks) ==
  IF chunks = <<>> \/ self.chunk_overlap <= 0 THEN chunks
  ELSE [i \in 1..Len(chunks) |-> UpdatedChunk(self, chunks, i)]

\* a variant of ValidChunk: a chunk of exactly min_chunk_length is dropped too
ValidChunkLonger(self, chunk) ==
  /\ ~(Len(Strip(chunk.text)) <= self.min_chunk_length)
  /\ ~(WordCharCount(Strip(chunk.text)) < MinWordChars)

\* the test of _filter_valid_chunks: the chunk is kept
ValidChunk(self, chunk) ==
  /\ ~(Len(Strip(chunk.text)) < self.min_chunk_length)
  /\ ~(WordCharCount(Strip(chunk.text)) < MinWordChars)

\* DocumentChunker._filter_valid_chunks
FilterValidChunks(self, chunks) == SelectSeq(chunks, LAMBDA chunk : ValidChunk(self, chunk))

\* a variant of AddOverlapAndValidate: the chunks are validated before the
\* overlap is added
AddOverlapAfterValidate(self, chunks, original_text) ==
  OverlappedChunks(self, FilterValidChunks(self, chunks))

\* a variant of AddOverlapAndValidate: with no chunk, the original text is
\* returned as the one chunk
AddOverlapAndValidateFallback(self, chunks, original_text) ==
  IF chunks = <<>> THEN <<CreateChunkData(original_text, 0, 0, "paragraph")>>
  ELSE FilterValidChunks(self, OverlappedChunks(self, chunks))

\* DocumentChunker._add_overlap_and_validate (original_text is not read)
AddOverlapAndValidate(self, chunks, original_text) ==
  FilterValidChunks(self, OverlappedChunks(self, chunks))

(***************************************************************************)
(* The inputs of a call.  A document is one to MaxParagraphs paragraphs    *)
(* separated by a blank line, or up to MaxBlank whitespace characters.     *)
(* The paragraphs are chosen so that, under the budgets below, a paragraph *)
(* fits exactly, paragraphs merge, a paragraph goes to the sentence and    *)
(* to the word splitter, a word alone exceeds the budget, and an overlap   *)
(* window is long enough to be kept.                                       *)
(***************************************************************************)
MaxParagraphs == 3

MaxBlank == 3

\* one word, as long as the larger budget
ParaWord == Rep("a", 24)

\* seven short words, with the whitespace a raw document has
ParaWords ==
  <<"c", "c", " ", " ", "c", "c", "\t", "c", "c", " ", "c", "c", " ", "\n",
    "c", "c", " ", "c", "c", " ", "c", "c">>

\* two sentences
ParaSentences == <<"b", "b", "b", "b", ".", " ", "b", "b", "b", "b">>

\* fewer than five word characters
ParaShort == <<"b", "b", "b", "b">>

\* three sentences ended by ! and ?, longer than the larger budget
ParaLong ==
  <<"b", "b", "b", "b", "b", " ", "b", "b", "b", "b", "b", "!", " ",
    "b", "b", "b", "b", "b", " ", "b", "b", "b", "b", "b", "?", " ",
    "b", "b", "b", "b", "b">>

\* a paragraph that ends with a full stop
ParaStop == <<"b", "b", "b", "b", "b", " ", "b", "b", "b", "b", "b", ".">>

ParagraphTexts == {ParaWord, ParaWords, ParaSentences, ParaShort, ParaLong, ParaStop}

BlankLine == <<"\n", "\n">>

Documents == UNION {{Join(BlankLine, ps) : ps \in [1..n -> ParagraphTexts]} : n \in 1..MaxParagraphs}

WhitespaceTexts == UNION {[1..n -> Space] : n \in 0..MaxBlank}

Texts == Documents \cup WhitespaceTexts

\* the values of app.config.settings the calls run under (the environment sets them)
SettingsValues ==
  {[chunk_size |-> 24, chunk_overlap |-> 20, min_chunk_length |-> 3],
   [chunk_size |-> 24, chunk_overlap |-> 0, min_chunk_length |-> 10]}

\* chunk_document's chunk_size argument
ChunkSizeArgs == {None, Some(12)}

\* chunk_document's chunk_overlap argument
ChunkOverlapArgs == {None, Some(0), Some(-1), Some(18), Some(22)}

DocumentTypes == {"pdf", "docx", "txt"}

(***************************************************************************)
(* QueryProcessor (backend/app/ingest/retriever.py).                       *)
(***************************************************************************)
\* the upper-case letters and, position by position, their lower case
UpperLetters ==
  <<"A", "B", "C", "D", "E", "F", "G", "H", "I", "J", "K", "L", "M",
    "N", "O", "P", "Q", "R", "S", "T", "U", "V", "W", "X", "Y", "Z">>

LowerLetters ==
  <<"a", "b", "c", "d", "e", "f", "g", "h", "i", "j", "k", "l", "m",
    "n", "o", "p", "q", "r", "s", "t", "u", "v", "w", "x", "y", "z">>

LowerLetterSet == {LowerLetters[i] : i \in 1..Len(LowerLetters)}

\* str.lower() of one character
LowerChar(c) ==
  IF c \in LowerLetterSet THEN c
  ELSE IF \E i \in 1..Len(UpperLetters) : UpperLetters[i] = c
  THEN LowerLetters[CHOOSE i \in 1..Len(UpperLetters) : UpperLetters[i] = c]
  ELSE c

\* str.lower()
ToLower(s) == [i \in 1..Len(s) |-> LowerChar(s[i])]

\* Python's `sub in s' for strings
Contains(sub, s) ==
  \E i \in 1..(Len(s) - Len(sub) + 1) : \A j \in 1..Len(sub) : s[i + j - 1] = sub[j]

\* any(word in query_lower for word in words)
AnyContained(words, query_lower) ==
  \E k \in 1..Len(words) : Contains(words[k], query_lower)

\* the word lists of _detect_query_intent
QuestionWords ==
  <<<<"h", "o", "w">>, <<"w", "h", "a", "t">>, <<"w", "h", "e", "n">>,
    <<"w", "h", "e", "r", "e">>, <<"w", "h", "y">>, <<"w", "h", "o">>>>

InstructionWords ==
  <<<<"h", "o", "w", " ", "t", "o">>, <<"s", "t", "e", "p", "s">>,
    <<"p", "r", "o", "c", "e", "s", "s">>,
    <<"p", "r", "o", "c", "e", "d", "u", "r", "e">>,
    <<"i", "n", "s", "t", "r", "u", "c", "t", "i", "o", "n">>>>

DefinitionWords ==
  <<<<"w", "h", "a", "t", " ", "i", "s">>, <<"d", "e", "f", "i", "n", "e">>,
    <<"d", "e", "f", "i", "n", "i", "t", "i", "o", "n">>,
    <<"m", "e", "a", "n", "i", "n", "g">>>>

TroubleshootingWords ==
  <<<<"e", "r", "r", "o", "r">>, <<"p", "r", "o", "b", "l", "e", "m">>,
    <<"i", "s", "s", "u", "e">>, <<"f", "i", "x">>,
    <<"s", "o", "l", "v", "e">>,
    <<"t", "r", "o", "u", "b", "l", "e", "s", "h", "o", "o", "t">>>>

\* a variant of DetectQueryIntent: the instruction phrases are tried before
\* the question words
DetectQueryIntentInstructionFirst(query) ==
  IF AnyContained(InstructionWords, ToLower(query)) THEN "instruction"
  ELSE IF AnyContained(QuestionWords, ToLower(query)) THEN "question"
  ELSE IF AnyContained(DefinitionWords, ToLower(query)) THEN "definition"
  ELSE IF AnyContained(TroubleshootingWords, ToLower(query)) THEN "troubleshooting"
  ELSE "information"

\* QueryProcessor._detect_query_intent
DetectQueryIntent(query) ==
  IF AnyContained(QuestionWords, ToLower(query)) THEN "question"
  ELSE IF AnyContained(InstructionWords, ToLower(query)) THEN "instruction"
  ELSE IF AnyContained(DefinitionWords, ToLower(query)) THEN "definition"
  ELSE IF AnyContained(TroubleshootingWords, ToLower(query)) THEN "troubleshooting"
  ELSE "information"

\* re.sub(r'[^\w\s]', ' ', processed_query)
SubNonWord(s) ==
  [i \in 1..Len(s) |-> IF s[i] \in WordChars \cup Space THEN s[i] ELSE " "]

RECURSIVE SubSpaceRuns(_, _)
\* re.sub(r'\s+', ' ', processed_query)
SubSpaceRuns(s, i) ==
  IF i > Len(s) THEN <<>>
  ELSE IF s[i] \in Space THEN <<" ">> \o SubSpaceRuns(s, RunEnd(Space, s, i))
  ELSE <<s[i]>> \o SubSpaceRuns(s, i + 1)

\* the keys of self.abbreviations and, position by position, their expansions
AbbreviationKeys ==
  <<<<"i", "n", "f", "o">>, <<"d", "o", "c", "s">>,
    <<"c", "o", "n", "f", "i", "g">>, <<"a", "d", "m", "i", "n">>,
    <<"m", "g", "m", "t">>, <<"p", "r", "o", "c">>, <<"r", "e", "q">>,
    <<"s", "p", "e", "c">>>>

AbbreviationValues ==
  <<<<"i", "n", "f", "o", "r", "m", "a", "t", "i", "o", "n">>,
    <<"d", "o", "c", "u", "m", "e", "n", "t", "s">>,
    <<"c", "o", "n", "f", "i", "g", "u", "r", "a", "t", "i", "o", "n">>,
    <<"a", "d", "m", "i", "n", "i", "s", "t", "r", "a", "t", "i", "o", "n">>,
    <<"m", "a", "n", "a", "g", "e", "m", "e", "n", "t">>,
    <<"p", "r", "o", "c", "e", "s", "s", " ", "p", "r", "o", "c", "e", "d", "u", "r", "e">>,
    <<"r", "e", "q", "u", "i", "r", "e", "m", "e", "n", "t", " ", "r", "e", "q", "u", "i", "r", "e", "m", "e", "n", "t", "s">>,
    <<"s", "p", "e", "c", "i", "f", "i", "c", "a", "t", "i", "o", "n", " ", "s", "p", "e", "c", "i", "f", "i", "c", "a", "t", "i", "o", "n", "s">>>>

\* self.stop_words
StopWords ==
  {<<"t", "h", "e">>, <<"a">>, <<"a", "n">>, <<"a", "n", "d">>, <<"o", "r">>,
    <<"b", "u", "t">>, <<"i", "n">>, <<"o", "n">>, <<"a", "t">>, <<"t", "o">>,
    <<"f", "o", "r">>, <<"o", "f">>, <<"w", "i", "t", "h">>, <<"b", "y">>,
    <<"i", "s">>, <<"a", "r", "e">>, <<"w", "a", "s">>,
    <<"w", "e", "r", "e">>, <<"b", "e">>, <<"b", "e", "e", "n">>,
    <<"b", "e", "i", "n", "g">>, <<"h", "a", "v", "e">>, <<"h", "a", "s">>,
    <<"h", "a", "d">>, <<"d", "o">>, <<"d", "o", "e", "s">>,
    <<"d", "i", "d">>, <<"w", "i", "l", "l">>, <<"w", "o", "u", "l", "d">>,
    <<"c", "o", "u", "l", "d">>, <<"s", "h", "o", "u", "l", "d">>}

\* preprocess_query: a word, or its expansion when it is an abbreviation
ExpandedTerm(word) ==
  IF \E k \in 1..Len(AbbreviationKeys) : AbbreviationKeys[k] = word
  THEN AbbreviationValues[CHOOSE k \in 1..Len(AbbreviationKeys) : AbbreviationKeys[k] = word]
  ELSE word

\* preprocess_query: processed_query, lowered, cleaned and trimmed
ProcessedQuery(original_query) ==
  Strip(SubSpaceRuns(SubNonWord(ToLower(original_query)), 1))

\* preprocess_query: expanded_query
ExpandedQuery(processed_query) ==
  Join(<<" ">>, [k \in 1..Len(Split(processed_query)) |->
                   ExpandedTerm(Split(processed_query)[k])])

\* preprocess_query: key_terms, the list of the words of the expanded query
\* that are no stop words and longer than 2 characters
KeyTerms(expanded_query) ==
  SelectSeq(Split(expanded_query),
            LAMBDA word : word \notin StopWords /\ Len(word) > 2)

\* QueryProcessor.preprocess_query
PreprocessQuery(query) ==
  [original  |-> Strip(query),
   processed |-> ProcessedQuery(Strip(query)),
   expanded  |-> ExpandedQuery(ProcessedQuery(Strip(query))),
   key_terms |-> KeyTerms(ExpandedQuery(ProcessedQuery(Strip(query)))),
   intent    |-> DetectQueryIntent(Strip(query)),
   length    |-> Len(Split(Strip(query)))]

(***************************************************************************)
(* ContextRetriever.  A distance is a whole number of hundredths; a score  *)
(* is a whole number of 1/ScoreScale, so that the sums and quotients of    *)
(* the ranking are exact.  Of a candidate the model keeps text, metadata,  *)
(* vector_distance, vector_rank, keyword_matches, keyword_score and        *)
(* relevance_score; retrieval_method and has_exact_phrase are written and  *)
(* never read.                                                             *)
(***************************************************************************)
\* one unit of distance: a distance of 1 is DistanceOne hundredths
DistanceOne == 100

\* scores are counted in 1/ScoreScale
ScoreScale == 60000

\* `chunk["vector_distance"] < 0.5' in hundredths
KeepDistance == 50

\* the chunk_data _retrieve_relevant_chunks builds for the i-th result
\* (1-based; vector_rank is Python's i)
NewCandidate(result, i) ==
  [text            |-> result.text,
   metadata        |-> result.metadata,
   vector_distance |-> result.distance,
   vector_rank     |-> i - 1,
   keyword_matches |-> None,
   keyword_score   |-> None,
   relevance_score |-> None]

\* `sum(1 for term in key_terms if term in text_lower)'
KeywordMatches(text_lower, key_terms) ==
  Cardinality({k \in 1..Len(key_terms) : Contains(key_terms[k], text_lower)})

\* the boost for an exact phrase match: 0.3 when there is more than one key
\* term and `" ".join(key_terms)' is in text_lower
PhraseBoost(text_lower, key_terms) ==
  IF Len(key_terms) > 1 /\ Contains(Join(<<" ">>, key_terms), text_lower)
  THEN (3 * ScoreScale) \div 10 ELSE 0

\* the keyword_score _apply_keyword_filtering stores
KeywordScore(text_lower, key_terms) ==
  (IF key_terms # <<>>
   THEN (KeywordMatches(text_lower, key_terms) * ScoreScale) \div Len(key_terms)
   ELSE 0) + PhraseBoost(text_lower, key_terms)

\* the first loop of _apply_keyword_filtering for one chunk
WithKeywords(chunk, key_terms) ==
  [chunk EXCEPT !.keyword_matches = Some(KeywordMatches(ToLower(chunk.text), key_terms)),
                !.keyword_score = Some(KeywordScore(ToLower(chunk.text), key_terms))]

\* a variant of KeepChunk: a chunk at the distance 0.5 is kept as well
KeepChunkAtThreshold(chunk) ==
  chunk.keyword_matches[1] > 0 \/ chunk.vector_distance <= KeepDistance

\* the test of the second loop of _apply_keyword_filtering
KeepChunk(chunk) == chunk.keyword_matches[1] > 0 \/ chunk.vector_distance < KeepDistance

\* ContextRetriever._apply_keyword_filtering
ApplyKeywordFiltering(chunks, key_terms) ==
  SelectSeq([i \in 1..Len(chunks) |-> WithKeywords(chunks[i], key_terms)], KeepChunk)

\* a variant of RetrieveRelevantChunks: the filter runs whatever the key terms
RetrieveRelevantChunksAlwaysFiltered(results, query_data) ==
  ApplyKeywordFiltering([i \in 1..Len(results) |-> NewCandidate(results[i], i)],
                        query_data.key_terms)

\* ContextRetriever._retrieve_relevant_chunks, on the results of the vector
\* search
RetrieveRelevantChunks(results, query_data) ==
  IF query_data.key_terms # <<>>
  THEN ApplyKeywordFiltering([i \in 1..Len(results) |-> NewCandidate(results[i], i)],
                             query_data.key_terms)
  ELSE [i \in 1..Len(results) |-> NewCandidate(results[i], i)]

\* the weights and bonuses of _rank_chunks, in 1/ScoreScale
VectorWeight == (6 * ScoreScale) \div 10

KeywordWeightTenths == 3

TitleBonus == ScoreScale \div 10

ParagraphBonus == (5 * ScoreScale) \div 100

SentenceGroupBonus == (2 * ScoreScale) \div 100

ShortPenalty == ScoreScale \div 10

LongBonus == (5 * ScoreScale) \div 100

\* `word_count < 20'
ShortWordCount == 20

\* `word_count > 100'
LongWordCount == 100

\* `query_data["length"] > 5'
LongQueryLength == 5

\* `max(0, 1 - chunk.get("vector_distance", 1))' times 0.6
VectorPart(chunk) ==
  IF DistanceOne - chunk.vector_distance > 0
  THEN (VectorWeight * (DistanceOne - chunk.vector_distance)) \div DistanceOne
  ELSE 0

\* `chunk.get("keyword_score", 0)' times 0.3
KeywordPart(chunk) ==
  IF chunk.keyword_score = None THEN 0
  ELSE (KeywordWeightTenths * chunk.keyword_score[1]) \div 10

\* `metadata.get("word_count", len(chunk["text"].split()))'
WordCountOf(chunk) ==
  IF chunk.metadata.word_count = None THEN Len(Split(chunk.text))
  ELSE chunk.metadata.word_count[1]

\* the metadata-based part of the score
MetadataPart(chunk, query_data) ==
    (IF query_data.intent \in {"definition", "information"} /\ chunk.metadata.has_title
     THEN TitleBonus ELSE 0)
  + (IF chunk.metadata.chunk_type = "paragraph" THEN ParagraphBonus
     ELSE IF chunk.metadata.chunk_type = "sentence_group" THEN SentenceGroupBonus
     ELSE 0)
  - (IF WordCountOf(chunk) < ShortWordCount THEN ShortPenalty ELSE 0)
  + (IF query_data.length > LongQueryLength /\ WordCountOf(chunk) > LongWordCount
     THEN LongBonus ELSE 0)

\* a variant of RelevanceScore: the penalty for short chunks forgotten
RelevanceScoreNoPenalty(chunk, query_data) ==
  VectorPart(chunk) + KeywordPart(chunk) + MetadataPart(chunk, query_data)
    + (IF WordCountOf(chunk) < ShortWordCount THEN ShortPenalty ELSE 0)

\* the relevance_score _rank_chunks computes for a chunk
RelevanceScore(chunk, query_data) ==
  VectorPart(chunk) + KeywordPart(chunk) + MetadataPart(chunk, query_data)

\* the first loop of _rank_chunks
WithRelevance(chunks, query_data) ==
  [i \in 1..Len(chunks) |->
     [chunks[i] EXCEPT !.relevance_score = Some(RelevanceScore(chunks[i], query_data))]]

\* a variant of InsertByScore: the chunk goes before the chunks of equal score
InsertByScoreBeforeEqual(sorted, chunk) ==
  LET before == {k \in 1..Len(sorted) :
                   sorted[k].relevance_score[1] > chunk.relevance_score[1]}
  IN SubSeq(sorted, 1, Cardinality(before)) \o <<chunk>>
       \o SubSeq(sorted, Cardinality(before) + 1, Len(sorted))

\* a chunk put into a list sorted by descending relevance_score, after the
\* chunks whose score is not smaller (the sort is stable)
InsertByScore(sorted, chunk) ==
  LET before == {k \in 1..Len(sorted) :
                   sorted[k].relevance_score[1] >= chunk.relevance_score[1]}
  IN SubSeq(sorted, 1, Cardinality(before)) \o <<chunk>>
       \o SubSeq(sorted, Cardinality(before) + 1, Len(sorted))

RECURSIVE SortedByRelevance(_, _)
\* `sorted(chunks, key=lambda x: x["relevance_score"], reverse=True)': the
\* first n chunks, sorted
SortedByRelevance(chunks, n) ==
  IF n = 0 THEN <<>>
  ELSE InsertByScore(SortedByRelevance(chunks, n - 1), chunks[n])

\* `ranked_chunks[:settings.retrieval_top_k]', retrieval_top_k >= 0
FirstN(list, n) == SubSeq(list, 1, IF n < Len(list) THEN n ELSE Len(list))

\* ContextRetriever._rank_chunks
RankChunks(chunks, query_data, retrieval_top_k) ==
  IF chunks = <<>> THEN <<>>
  ELSE FirstN(SortedByRelevance(WithRelevance(chunks, query_data), Len(chunks)),
              retrieval_top_k)

\* the headers of _format_context
ProceduresHeader ==
  <<"R", "E", "L", "E", "V", "A", "N", "T", " ", "P", "R", "O", "C", "E", "D", "U", "R", "E", "S", " ", "A", "N", "D", " ", "I", "N", "S", "T", "R", "U", "C", "T", "I", "O", "N", "S", ":">>

DefinitionsHeader ==
  <<"R", "E", "L", "E", "V", "A", "N", "T", " ", "D", "E", "F", "I", "N", "I", "T", "I", "O", "N", "S", " ", "A", "N", "D", " ", "E", "X", "P", "L", "A", "N", "A", "T", "I", "O", "N", "S", ":">>

InformationHeader ==
  <<"R", "E", "L", "E", "V", "A", "N", "T", " ", "I", "N", "F", "O", "R", "M", "A", "T", "I", "O", "N", ":">>

\* the header _format_context chooses by intent
ContextHeader(intent) ==
  IF intent \in {"instruction", "troubleshooting"} THEN ProceduresHeader
  ELSE IF intent = "definition" THEN DefinitionsHeader
  ELSE InformationHeader

\* `"-" * 40'
SeparatorLength == 40

\* f"\n[Section: {metadata['section_header']}]"
SectionLine(section_header) ==
  <<"\n", "[", "S", "e", "c", "t", "i", "o", "n", ":", " ">> \o section_header \o <<"]">>

\* a variant of ChunkParts: the separator follows the last chunk as well
ChunkPartsSeparatorAfterEach(chunks, i) ==
  (IF chunks[i].metadata.section_header # <<>>
   THEN <<SectionLine(chunks[i].metadata.section_header)>> ELSE <<>>)
  \o <<(<<"\n">> \o Strip(chunks[i].text))>>
  \o <<(<<"\n">> \o Rep("-", SeparatorLength))>>

\* the parts _format_context appends for the i-th of the chunks: the section
\* line when metadata has a section_header, the text, and the separator unless
\* the chunk is the last
ChunkParts(chunks, i) ==
  (IF chunks[i].metadata.section_header # <<>>
   THEN <<SectionLine(chunks[i].metadata.section_header)>> ELSE <<>>)
  \o <<(<<"\n">> \o Strip(chunks[i].text))>>
  \o (IF i < Len(chunks) THEN <<(<<"\n">> \o Rep("-", SeparatorLength))>> ELSE <<>>)

\* context_parts of _format_context
ContextParts(chunks, query_data) ==
  <<ContextHeader(query_data.intent)>>
    \o Flatten([i \in 1..Len(chunks) |-> ChunkParts(chunks, i)])

\* max_context_length
MaxContextLength == 4000

\* the marker appended to a truncated context
TruncationMarker ==
  <<"\n", "[", ".", ".", ".", "c", "o", "n", "t", "e", "n", "t", " ", "t", "r", "u", "n", "c", "a", "t", "e", "d", " ", "f", "o", "r", " ",
    "l", "e", "n", "g", "t", "h", ".", ".", ".", "]">>

\* `context[:max_context_length] + marker' when the context is too long
Trimmed(context) ==
  IF Len(context) > MaxContextLength
  THEN SubSeq(context, 1, MaxContextLength) \o TruncationMarker
  ELSE context

\* ContextRetriever._format_context
FormatContext(chunks, query_data) ==
  IF chunks = <<>> THEN <<>>
  ELSE Trimmed(Join(<<"\n">>, ContextParts(chunks, query_data)))

(***************************************************************************)
(* score_chunk_quality (backend/app/ingest/quality.py).  A similarity is a *)
(* whole number of 1/SimilarityOne; a metadata value is a record of its    *)
(* kind (absent: the key is not in the dict; None; float; bool) and its    *)
(* value.                                                                  *)
(***************************************************************************)
\* one unit of similarity: a cosine similarity of 1 is SimilarityOne units
SimilarityOne == 100000

\* the fourth decimal place, in units of similarity
FourthDecimal == SimilarityOne \div 10000

\* the values of a metadata field
AbsentValue == [kind |-> "absent", value |-> 0]

NoneValue == [kind |-> "None", value |-> 0]

FloatValue(x) == [kind |-> "float", value |-> x]

BoolValue(b) == [kind |-> "bool", value |-> IF b THEN 1 ELSE 0]

\* `round(score, 4)', for a score that is not half-way between two values
\* of four decimals
Round4(score) == ((score + FourthDecimal \div 2) \div FourthDecimal) * FourthDecimal

\* `score < settings.quality_score_threshold'
LowQuality(score, quality_score_threshold) == score < quality_score_threshold

\* the body of the loop of score_chunk_quality for a chunk that has a
\* previous chunk
ScoredChunk(chunk, score, quality_score_threshold) ==
  [chunk EXCEPT !.metadata.chunk_quality_score = FloatValue(Round4(score)),
                !.metadata.low_quality_flag =
                    BoolValue(LowQuality(score, quality_score_threshold))]

\* what score_chunk_quality does to the first chunk
FirstChunk(chunk) ==
  [chunk EXCEPT !.metadata.chunk_quality_score = NoneValue,
                !.metadata.low_quality_flag = BoolValue(FALSE)]

\* a variant of ScoreChunkQuality: the list is returned as it is only when
\* the feature is off or the list is empty
ScoreChunkQualityOfOne(chunk_list, scores, quality_settings_value) ==
  IF ~quality_settings_value.enable_chunk_quality_score \/ Len(chunk_list) < 1
  THEN chunk_list
  ELSE [i \in 1..Len(chunk_list) |->
          IF i = 1 THEN FirstChunk(chunk_list[i])
          ELSE ScoredChunk(chunk_list[i], scores[i - 1],
                           quality_settings_value.quality_score_threshold)]

\* score_chunk_quality; scores[i] is the cosine similarity of the embeddings
\* of chunks i and i + 1 (1-based)
ScoreChunkQuality(chunk_list, scores, quality_settings_value) ==
  IF ~quality_settings_value.enable_chunk_quality_score \/ Len(chunk_list) < 2
  THEN chunk_list
  ELSE [i \in 1..Len(chunk_list) |->
          IF i = 1 THEN FirstChunk(chunk_list[i])
          ELSE ScoredChunk(chunk_list[i], scores[i - 1],
                           quality_settings_value.quality_score_threshold)]

(***************************************************************************)
(* upload_file and delete_file (backend/app/routes/upload.py) and the      *)
(* indexer (backend/app/ingest/indexer.py).  A file name is a record of    *)
(* its stem and its suffix; a document hash is the hashed text itself      *)
(* (SHA-256 is taken to be free of collisions).                            *)
(***************************************************************************)
\* `document_type_map.get(file_extension, 'generic')'
DocumentTypeOf(filename) ==
  CASE filename.suffix = ".pdf" -> "pdf"
    [] filename.suffix \in {".docx", ".doc"} -> "docx"
    [] filename.suffix = ".txt" -> "txt"
    [] OTHER -> "generic"

\* chunk_text, for a chunker and a document type
ChunkText(new_chunker, raw_text, type) ==
  AddOverlapAndValidate(
    new_chunker,
    IF type = "pdf" THEN ChunkPdfStyle(new_chunker, PreprocessText(raw_text))
    ELSE IF type = "docx" THEN ChunkStructuredDocument(new_chunker, PreprocessText(raw_text))
    ELSE ChunkGenericText(new_chunker, PreprocessText(raw_text)),
    PreprocessText(raw_text))

\* `chunk_document(text=text_content, document_type=document_type,
\* chunk_size=settings.chunk_size, chunk_overlap=settings.chunk_overlap)'
SmartChunkResults(settings_value, raw_text, type) ==
  ChunkText(NewChunker(settings_value, Some(settings_value.chunk_size),
                       Some(settings_value.chunk_overlap), None),
            raw_text, type)

\* `chunks[:settings.max_chunks_per_document]'
Truncated(chunk_list, max_chunks_per_document) ==
  SubSeq(chunk_list, 1, IF Len(chunk_list) > max_chunks_per_document
                        THEN max_chunks_per_document ELSE Len(chunk_list))

\* the window `text_content[start:end]' of the fallback loop, start 0-based
FallbackWindow(raw_text, start, chunk_size) ==
  SubSeq(raw_text, start + 1,
         IF start + chunk_size < Len(raw_text) THEN start + chunk_size ELSE Len(raw_text))

\* the chunks of the fallback loop after the window at start, when the test
\* that ends the loop is `len(chunks) > max_chunks_per_document'
FallbackAppended(settings_value, raw_text, start, chunk_list) ==
  IF Len(Strip(FallbackWindow(raw_text, start, settings_value.chunk_size)))
       >= settings_value.min_chunk_length
  THEN Append(chunk_list, Strip(FallbackWindow(raw_text, start, settings_value.chunk_size)))
  ELSE chunk_list

RECURSIVE FallbackLoopAtLimit(_, _, _, _)
\* a variant of FallbackLoop: the loop ends as soon as the limit is reached
FallbackLoopAtLimit(settings_value, raw_text, start, chunk_list) ==
  IF start >= Len(raw_text) THEN chunk_list
  ELSE IF Len(FallbackAppended(settings_value, raw_text, start, chunk_list))
            >= settings_value.max_chunks_per_document
  THEN FallbackAppended(settings_value, raw_text, start, chunk_list)
  ELSE FallbackLoopAtLimit(settings_value, raw_text,
                           start + settings_value.chunk_size - settings_value.chunk_overlap,
                           FallbackAppended(settings_value, raw_text, start, chunk_list))

RECURSIVE FallbackLoop(_, _, _, _)
\* the fallback loop of upload_file from the window at start on
\* (chunk_overlap < chunk_size)
FallbackLoop(settings_value, raw_text, start, chunk_list) ==
  IF start >= Len(raw_text) THEN chunk_list
  ELSE IF Len(FallbackAppended(settings_value, raw_text, start, chunk_list))
            > settings_value.max_chunks_per_document
  THEN FallbackAppended(settings_value, raw_text, start, chunk_list)
  ELSE FallbackLoop(settings_value, raw_text,
                    start + settings_value.chunk_size - settings_value.chunk_overlap,
                    FallbackAppended(settings_value, raw_text, start, chunk_list))

\* the basic chunking upload_file falls back to
FallbackChunks(settings_value, raw_text) == FallbackLoop(settings_value, raw_text, 0, <<>>)

\* generate_document_hash
DocumentHash(content) == content

\* `if len(chunk.strip()) < 10: continue'
MinStoredLength == 10

\* the chunks store_chunks adds for a document: those of at least
\* MinStoredLength characters, each with its index in text_chunks
StoredChunks(text_chunks, doc_hash) ==
  {[document_hash |-> doc_hash, chunk_index |-> i - 1, document |-> Strip(text_chunks[i])] :
     i \in {k \in 1..Len(text_chunks) : Len(Strip(text_chunks[k])) >= MinStoredLength}}

\* a variant of ExistingChunks: the query by hash finds nothing
ExistingChunksNone(collection, doc_hash) == {}

\* `collection.get(where={"document_hash": doc_hash})'
ExistingChunks(collection, doc_hash) == {c \in collection : c.document_hash = doc_hash}

\* `settings.is_supported_file_type(file.filename)'
IsSupportedFileType(settings_value, filename) ==
  filename.suffix \in settings_value.supported_file_types

\* the path save_original_file writes: `{document_hash[:12]}_{filename}'
OriginalFilePath(document_hash, filename) ==
  [document_hash |-> document_hash, filename |-> filename]

\* the document_info of save_document_metadata
DocumentInfo(filename, document_hash, chunks_stored, original_file_path) ==
  [filename           |-> filename,
   document_hash      |-> document_hash,
   chunks_stored      |-> chunks_stored,
   original_file_path |-> original_file_path]

\* the metadata file: it exists or not, and holds a list of documents
MetadataFile(documents) == [exists |-> TRUE, documents |-> documents]

NoMetadataFile == [exists |-> FALSE, documents |-> <<>>]

\* `if metadata_file.exists(): ... json.load(f)', else the empty list
LoadedDocuments(metadata_file) ==
  IF metadata_file.exists THEN metadata_file.documents ELSE <<>>

\* a variant of ReplacedMetadata: only the entry of the same hash is replaced
ReplacedMetadataByHash(documents_metadata, document_info) ==
  Append(SelectSeq(documents_metadata,
                   LAMBDA doc : doc.document_hash # document_info.document_hash),
         document_info)

\* save_document_metadata: the entries of the same filename or the same hash
\* are removed and the new entry is appended
ReplacedMetadata(documents_metadata, document_info) ==
  Append(SelectSeq(documents_metadata,
                   LAMBDA doc : /\ doc.filename # document_info.filename
                                /\ doc.document_hash # document_info.document_hash),
         document_info)

\* remove_document_metadata: new_metadata
RemainingMetadata(documents_metadata, document_hash) ==
  SelectSeq(documents_metadata, LAMBDA doc : doc.document_hash # document_hash)

\* delete_file: the first document of the filename, None when there is none
TargetDocument(documents, filename) ==
  IF SelectSeq(documents, LAMBDA doc : doc.filename = filename) = <<>> THEN None
  ELSE <<SelectSeq(documents, LAMBDA doc : doc.filename = filename)[1]>>

\* how upload_file or delete_file answers: the HTTP status code, the status
\* of the body, and the detail of an HTTPException
Response(status_code, status, detail) ==
  [status_code |-> status_code, status |-> status, detail |-> detail]

HTTPException(status_code, detail) == Response(status_code, "error", detail)

(***************************************************************************)
(* get_tokenizer.  AutoTokenizer.from_pretrained returns a tokenizer or    *)
(* raises; the end of a call is [raised, value]; a tokenizer is known by   *)
(* the name of its model.                                                  *)
(***************************************************************************)
\* a variant of GetTokenizer: the exception of the load leaves get_tokenizer
GetTokenizerRaising(load_result, model_name) ==
  IF load_result = "loaded" THEN [raised |-> FALSE, value |-> Some(model_name)]
  ELSE [raised |-> TRUE, value |-> None]

\* get_tokenizer: `try: ... return tokenizer' and `except Exception: ... return None'
GetTokenizer(load_result, model_name) ==
  IF load_result = "loaded" THEN [raised |-> FALSE, value |-> Some(model_name)]
  ELSE [raised |-> FALSE, value |-> None]

(***************************************************************************)
(* app/llm/mistral_adapter.py and app/routes/chat.py: the streamed answer.  *)
(***************************************************************************)

\* the characters at which stream_mistral_response closes a token
StreamDelimiters == {" ", "\n", ".", ",", "!", "?", ";", ":"}

\* the texts the adapter yields in place of an exception
ServerError == <<"[", "E", "r", "r", "o", "r", ":", " ", "O", "l", "l", "a", "m", "a", " ", "s", "e", "r", "v", "e", "r", " ", "n", "o", "t", " ", "a", "v", "a", "i", "l", "a", "b", "l", "e", "]">>

ProcessError == <<"[", "E", "r", "r", "o", "r", ":", " ", "P", "r", "o", "c", "e", "s", "s", " ", "f", "a", "i", "l", "e", "d", " ", "-", " ", "]">>

TimeoutError == <<"[", "E", "r", "r", "o", "r", ":", " ", "S", "t", "r", "e", "a", "m", "i", "n", "g", " ", "t", "i", "m", "e", "o", "u", "t", "]">>

StreamingError == <<"[", "E", "r", "r", "o", "r", " ", "d", "u", "r", "i", "n", "g", " ", "s", "t", "r", "e", "a", "m", "i", "n", "g", ":", " ", "]">>

BufferedError == <<"[", "E", "r", "r", "o", "r", " ", "i", "n", " ", "b", "u", "f", "f", "e", "r", "e", "d", " ", "s", "t", "r", "e", "a", "m", "i", "n", "g", ":", " ", "]">>

\* word.startswith("[Error")
StartsWithError(word) == Len(word) >= 6 /\ SubSeq(word, 1, 6) = <<"[", "E", "r", "r", "o", "r">>

\* the tokens the read loop of stream_mistral_response yields: a token is
\* closed by a delimiter and yielded when it is not blank
RECURSIVE LoopTokens(_, _, _)
LoopTokens(stdout, i, current_token) ==
  IF i > Len(stdout) THEN <<>>
  ELSE LET token == Append(current_token, stdout[i])
       IN IF stdout[i] \in StreamDelimiters
          THEN (IF Strip(token) # <<>> THEN <<token>> ELSE <<>>)
               \o LoopTokens(stdout, i + 1, <<>>)
          ELSE LoopTokens(stdout, i + 1, token)

\* current_token when the read loop ends: yielded when it is not blank
PendingToken(stdout) ==
  LET closed == {i \in 1..Len(stdout) : stdout[i] \in StreamDelimiters}
      current_token == IF closed = {} THEN stdout
                       ELSE SubSeq(stdout, SetMax(closed) + 1, Len(stdout))
  IN IF Strip(current_token) # <<>> THEN <<current_token>> ELSE <<>>

\* stream_mistral_response under a behaviour of the model process: the server
\* is reachable or not, the process writes stdout, and the call ends normally,
\* with a non-zero return code, in TimeoutExpired of process.wait, or in an
\* exception of Popen or of the read (the pending token is then lost).  Every
\* failure is yielded as a text; nothing is raised.
StreamMistralResponse(llm) ==
  IF ~llm.running THEN [raised |-> FALSE, value |-> <<ServerError>>]
  ELSE [raised |-> FALSE,
        value |->
          CASE llm.failure = "none" ->
                 LoopTokens(llm.stdout, 1, <<>>) \o PendingToken(llm.stdout)
            [] llm.failure = "return_code" ->
                 LoopTokens(llm.stdout, 1, <<>>) \o PendingToken(llm.stdout)
                 \o <<ProcessError>>
            [] llm.failure = "TimeoutExpired" ->
                 LoopTokens(llm.stdout, 1, <<>>) \o PendingToken(llm.stdout)
                 \o <<TimeoutError>>
            [] OTHER ->
                 LoopTokens(llm.stdout, 1, <<>>) \o <<StreamingError>>]

\* any(word.rstrip().endswith(punct) for punct in ['.', '!', '?'])
EndsSentence(word) == Strip(word) # <<>> /\ Strip(word)[Len(Strip(word))] \in Term

\* the loop of stream_mistral_response_buffered over the words from the i-th
\* on, with the words buffered so far
RECURSIVE BufferedChunks(_, _, _, _)
BufferedChunks(words, i, word_buffer, buffer_size) ==
  IF i > Len(words)
  THEN (IF word_buffer # <<>> /\ Strip(Join(<<" ">>, word_buffer)) # <<>>
        THEN <<Strip(Join(<<" ">>, word_buffer))>> ELSE <<>>)
  ELSE IF StartsWithError(words[i])
  THEN (IF word_buffer # <<>> THEN <<Join(<<" ">>, word_buffer)>> ELSE <<>>)
       \o <<words[i]>>
  ELSE LET buffer == Append(word_buffer, Strip(words[i]))
           chunk == Strip(Join(<<" ">>, buffer))
       IN IF Len(buffer) >= buffer_size \/ EndsSentence(words[i])
          THEN (IF chunk # <<>> THEN <<chunk \o <<" ">>>> ELSE <<>>)
               \o BufferedChunks(words, i + 1, <<>>, buffer_size)
          ELSE BufferedChunks(words, i + 1, buffer, buffer_size)

\* the words of a stream that raised, as the `except Exception' of
\* stream_mistral_response_buffered leaves them: whole groups of buffer_size
\* words or up to a sentence end, then the buffer unstripped, then the text
RECURSIVE BufferedBeforeRaise(_, _, _, _)
BufferedBeforeRaise(words, i, word_buffer, buffer_size) ==
  IF i > Len(words)
  THEN (IF word_buffer # <<>> THEN <<Join(<<" ">>, word_buffer)>> ELSE <<>>)
       \o <<BufferedError>>
  ELSE IF StartsWithError(words[i])
  THEN (IF word_buffer # <<>> THEN <<Join(<<" ">>, word_buffer)>> ELSE <<>>)
       \o <<words[i]>>
  ELSE LET buffer == Append(word_buffer, Strip(words[i]))
           chunk == Strip(Join(<<" ">>, buffer))
       IN IF Len(buffer) >= buffer_size \/ EndsSentence(words[i])
          THEN (IF chunk # <<>> THEN <<chunk \o <<" ">>>> ELSE <<>>)
               \o BufferedBeforeRaise(words, i + 1, <<>>, buffer_size)
          ELSE BufferedBeforeRaise(words, i + 1, buffer, buffer_size)

\* stream_mistral_response_buffered with an error text raised instead of
\* yielded: the chunks before it, then the exception
StreamMistralResponseBufferedRaising(llm, buffer_size) ==
  LET words == StreamMistralResponse(llm).value
      chunks == BufferedChunks(words, 1, <<>>, buffer_size)
  IN IF chunks # <<>> /\ StartsWithError(chunks[Len(chunks)])
     THEN [raised |-> TRUE, value |-> SubSeq(chunks, 1, Len(chunks) - 1)]
     ELSE [raised |-> FALSE, value |-> chunks]

\* stream_mistral_response_buffered: the chunks it yields; an exception of the
\* word stream ends in a text as well
StreamMistralResponseBuffered(llm, buffer_size) ==
  LET words == StreamMistralResponse(llm)
  IN [raised |-> FALSE,
      value |-> IF words.raised
                THEN BufferedBeforeRaise(words.value, 1, <<>>, buffer_size)
                ELSE BufferedChunks(words.value, 1, <<>>, buffer_size)]

\* data.replace('\n', '\\n').replace('\r', '\\r')
RECURSIVE CleanedData(_)
CleanedData(data) ==
  IF data = <<>> THEN <<>>
  ELSE (IF data[1] = "\n" THEN <<"\\", "n">>
        ELSE IF data[1] = "\r" THEN <<"\\", "r">> ELSE <<data[1]>>)
       \o CleanedData(Tail(data))

\* format_sse_message: the event type and the data line of the event
FormatSseMessage(data, event_type) ==
  [event |-> event_type, data |-> CleanedData(data)]

\* format_sse_json: the event type and the dictionary sent as JSON
FormatSseJson(data, event_type) == [event |-> event_type, data |-> data]

(***************************************************************************)
(* One call of chunk_document.                                             *)
(***************************************************************************)
VARIABLES
  settings,           \* app.config.settings
  text,               \* the text argument
  document_type,      \* the document_type argument
  arg_chunk_size,     \* the chunk_size argument
  arg_chunk_overlap,  \* the chunk_overlap argument
  pc,                 \* where the call is
  chunker,            \* the DocumentChunker of the call
  cleaned_text,       \* chunk_text's cleaned_text
  chunks,             \* chunk_text's chunks: what the strategy returned
  overlapped,         \* the list _add_overlap_and_validate validates
  final_chunks        \* the list chunk_document returns

\* one call of retrieve_context
VARIABLES
  query,              \* the query argument
  retrieval_top_k,    \* settings.retrieval_top_k
  vector_results,     \* what the vector store answers: Unavailable, or the results
  rpc,                \* where the call is
  query_data,         \* what preprocess_query returned
  retrieved_chunks,   \* what _retrieve_relevant_chunks returned
  ranked_chunks,      \* what _rank_chunks returned
  outcome             \* how the call ended: [raised, value]

\* one call of score_chunk_quality
VARIABLES
  quality_settings,   \* settings.enable_chunk_quality_score, quality_score_threshold
  quality_chunks,     \* the chunks argument
  similarities,       \* similarities[i]: cosine_similarity of chunks i and i + 1
  qpc,                \* where the call is
  embedded_texts,     \* the lists of texts get_embeddings was called with
  scored_chunks       \* the list score_chunk_quality returns

\* one call of get_tokenizer and the call of chunk_document that follows it
VARIABLES
  tokenizer_load,     \* what AutoTokenizer.from_pretrained does: "loaded" or the exception
  token_settings,     \* app.config.settings
  token_text,         \* the text argument of chunk_document
  tpc,                \* where the caller is
  tokenizer,          \* how get_tokenizer ended: [raised, value]
  token_cleaned,      \* what _preprocess_text returned
  token_segments,     \* what the strategy of chunk_text returned
  token_chunks        \* what chunk_document returned

\* the uploads and deletes of one company
VARIABLES
  upload_settings,    \* app.config.settings
  collection,         \* the company's collection in the vector store: a set of chunks
  documents_dir,      \* the paths in the company's directory of original files
  metadata_file,      \* the company's metadata file
  operations,         \* the number of requests received so far
  upc,                \* where upload_file is
  up_filename,        \* file.filename
  up_text,            \* text_content
  up_chunks,          \* chunks: what is handed to store_chunks
  up_storage,         \* storage_result
  up_documents,       \* save_document_metadata's documents_metadata, as loaded
  up_response,        \* how upload_file answered
  dpc,                \* where delete_file is
  del_filename,       \* filename
  del_target,         \* target_document
  del_result,         \* deletion_result
  del_documents,      \* remove_document_metadata's documents_metadata, as loaded
  del_response        \* how delete_file answered

\* one streamed answer of the chat route
VARIABLES
  chat_llm,           \* how the model process behaves during the call
  chat_retrieved,     \* what retrieve_context returns to the call
  cpc,                \* where generate_streaming_response is
  events,             \* the events yielded so far, in order
  context,            \* context
  chat_stream,        \* the iteration of stream_mistral_response_buffered
  chat_position,      \* the number of chunks taken from it
  full_response,      \* full_response
  chunk_count         \* chunk_count

inputs == <<settings, text, document_type, arg_chunk_size, arg_chunk_overlap>>

chunker_vars == <<inputs, pc, chunker, cleaned_text, chunks, overlapped, final_chunks>>

retriever_inputs == <<query, retrieval_top_k, vector_results>>

retriever_vars ==
  <<retriever_inputs, rpc, query_data, retrieved_chunks, ranked_chunks, outcome>>

quality_inputs == <<quality_settings, quality_chunks, similarities>>

quality_vars == <<quality_inputs, qpc, embedded_texts, scored_chunks>>

tokenizer_inputs == <<tokenizer_load, token_settings, token_text>>

tokenizer_vars ==
  <<tokenizer_inputs, tpc, tokenizer, token_cleaned, token_segments, token_chunks>>

upload_store == <<collection, documents_dir, metadata_file>>

upload_call ==
  <<upc, up_filename, up_text, up_chunks, up_storage, up_documents, up_response>>

delete_call == <<dpc, del_filename, del_target, del_result, del_documents, del_response>>

upload_vars == <<upload_settings, operations, upload_store, upload_call, delete_call>>

chat_inputs == <<chat_llm, chat_retrieved>>

chat_vars ==
  <<chat_inputs, cpc, events, context, chat_stream, chat_position, full_response,
    chunk_count>>

vars == <<chunker_vars, retriever_vars, quality_vars, tokenizer_vars, upload_vars, chat_vars>>

\* no call of chunk_document is under way
ChunkerIdle ==
  /\ settings = None /\ text = <<>> /\ document_type = "" /\ arg_chunk_size = None
  /\ arg_chunk_overlap = None /\ pc = "idle" /\ chunker = None /\ cleaned_text = <<>>
  /\ chunks = <<>> /\ overlapped = <<>> /\ final_chunks = <<>>

\* no call of retrieve_context is under way
RetrieverIdle ==
  /\ query = <<>> /\ retrieval_top_k = 0 /\ vector_results = <<>> /\ rpc = "idle"
  /\ query_data = None /\ retrieved_chunks = <<>> /\ ranked_chunks = <<>>
  /\ outcome = None

\* no call of score_chunk_quality is under way
QualityIdle ==
  /\ quality_settings = None /\ quality_chunks = <<>> /\ similarities = <<>>
  /\ qpc = "idle" /\ embedded_texts = <<>> /\ scored_chunks = <<>>

\* no call of get_tokenizer is under way
TokenizerIdle ==
  /\ tokenizer_load = "" /\ token_settings = None /\ token_text = <<>> /\ tpc = "idle"
  /\ tokenizer = None /\ token_cleaned = <<>> /\ token_segments = <<>>
  /\ token_chunks = <<>>

\* storage_result before store_chunks has returned
NoStorage == [status |-> "", document_hash |-> <<>>, chunks_stored |-> 0]

\* deletion_result before delete_document_chunks has returned
NoDeletion == [status |-> "", deleted_count |-> 0]

\* no answer yet
NoResponse == Response(0, "", "")

\* no file name
NoFilename == [stem |-> "", suffix |-> ""]

\* no call of upload_file is under way
UploadFileIdle ==
  /\ upc = "idle" /\ up_filename = NoFilename /\ up_text = <<>> /\ up_chunks = <<>>
  /\ up_storage = NoStorage /\ up_documents = <<>> /\ up_response = NoResponse

\* no call of delete_file is under way
DeleteFileIdle ==
  /\ dpc = "idle" /\ del_filename = NoFilename /\ del_target = None
  /\ del_result = NoDeletion /\ del_documents = <<>> /\ del_response = NoResponse

\* nothing is stored for the company
EmptyStore == collection = {} /\ documents_dir = {} /\ metadata_file = NoMetadataFile

\* no request has been received
UploadIdle ==
  /\ upload_settings = None /\ operations = 0
  /\ EmptyStore /\ UploadFileIdle /\ DeleteFileIdle

\* a model process that is never started
NoLlm == [running |-> FALSE, stdout |-> <<>>, failure |-> "none"]

\* stream_mistral_response_buffered before it is called
NoStream == [raised |-> FALSE, value |-> <<>>]

\* retrieve_context before it is called
NoRetrieval == [raised |-> FALSE, value |-> <<>>]

\* no call of generate_streaming_response is under way
ChatIdle ==
  /\ chat_llm = NoLlm /\ chat_retrieved = NoRetrieval
  /\ cpc = "idle" /\ events = <<>> /\ context = <<>> /\ chat_stream = NoStream
  /\ chat_position = 0 /\ full_response = <<>> /\ chunk_count = 0

Init ==
  /\ settings \in SettingsValues
  /\ text \in Texts
  /\ document_type \in DocumentTypes
  /\ arg_chunk_size \in ChunkSizeArgs
  /\ arg_chunk_overlap \in ChunkOverlapArgs
  /\ pc = "chunk_document"
  /\ chunker = None
  /\ cleaned_text = <<>>
  /\ chunks = <<>>
  /\ overlapped = <<>>
  /\ final_chunks = <<>>
  /\ RetrieverIdle
  /\ QualityIdle
  /\ TokenizerIdle
  /\ UploadIdle
  /\ ChatIdle

\* chunk_document: the chunker is constructed and chunk_text is called
ChunkDocument ==
  /\ pc = "chunk_document"
  /\ chunker' = NewChunker(settings, arg_chunk_size, arg_chunk_overlap, None)
  /\ pc' = "chunk_text"
  /\ UNCHANGED <<chat_vars, upload_vars, tokenizer_vars, retriever_vars, quality_vars, inputs, cleaned_text, chunks, overlapped, final_chunks>>

\* chunk_text: the text is preprocessed
Preprocess ==
  /\ pc = "chunk_text"
  /\ cleaned_text' = PreprocessText(text)
  /\ pc' = "strategy"
  /\ UNCHANGED <<chat_vars, upload_vars, tokenizer_vars, retriever_vars, quality_vars, inputs, chunker, chunks, overlapped, final_chunks>>

\* chunk_text: document_type.lower() == "pdf"
StrategyPdf ==
  /\ pc = "strategy"
  /\ document_type = "pdf"
  /\ chunks' = ChunkPdfStyle(chunker, cleaned_text)
  /\ pc' = "overlap"
  /\ UNCHANGED <<chat_vars, upload_vars, tokenizer_vars, retriever_vars, quality_vars, inputs, chunker, cleaned_text, overlapped, final_chunks>>

\* chunk_text: document_type.lower() == "docx"
StrategyDocx ==
  /\ pc = "strategy"
  /\ document_type = "docx"
  /\ chunks' = ChunkStructuredDocument(chunker, cleaned_text)
  /\ pc' = "overlap"
  /\ UNCHANGED <<chat_vars, upload_vars, tokenizer_vars, retriever_vars, quality_vars, inputs, chunker, cleaned_text, overlapped, final_chunks>>

\* chunk_text: any other document type
StrategyGeneric ==
  /\ pc = "strategy"
  /\ document_type \notin {"pdf", "docx"}
  /\ chunks' = ChunkGenericText(chunker, cleaned_text)
  /\ pc' = "overlap"
  /\ UNCHANGED <<chat_vars, upload_vars, tokenizer_vars, retriever_vars, quality_vars, inputs, chunker, cleaned_text, overlapped, final_chunks>>

\* chunk_text: overlap is added, the chunks are validated and returned
OverlapAndValidate ==
  /\ pc = "overlap"
  /\ overlapped' = OverlappedChunks(chunker, chunks)
  /\ final_chunks' = AddOverlapAndValidate(chunker, chunks, cleaned_text)
  /\ pc' = "done"
  /\ UNCHANGED <<chat_vars, upload_vars, tokenizer_vars, retriever_vars, quality_vars, inputs, chunker, cleaned_text, chunks>>

Next ==
  \/ ChunkDocument
  \/ Preprocess
  \/ StrategyPdf
  \/ StrategyDocx
  \/ StrategyGeneric
  \/ OverlapAndValidate

Spec == Init /\ [][Next]_vars

(***************************************************************************)
(* One call of retrieve_context.  The query is one of a few queries that   *)
(* between them have every intent, an abbreviation, a repeated word, only  *)
(* stop words, and more than five words; the vector store fails or answers *)
(* with up to MaxResults results.                                          *)
(***************************************************************************)
MaxResults == 3

MaxTopK == 3

\* the length of a long chunk: three of them, without section lines, under
\* the longest header give a context of exactly max_context_length characters
LongTextLength == 1291

QueryHowTo ==
  <<" ", "H", "o", "w", " ", "t", "o", " ", "r", "e", "s", "e", "t", " ", "a", " ", "p", "a", "s", "s", "w", "o", "r", "d", "?">>

QueryDefine ==
  <<"d", "e", "f", "i", "n", "e", " ", "c", "o", "n", "f", "i", "g">>

QueryRepeated ==
  <<"r", "e", "s", "e", "t", " ", "r", "e", "s", "e", "t", " ", "p", "a", "s", "s", "w", "o", "r", "d">>

QuerySteps ==
  <<"p", "l", "e", "a", "s", "e", " ", "l", "i", "s", "t", " ", "t", "h", "e", " ", "s", "t", "e", "p", "s", " ", "f", "o", "r", " ", "t", "h", "e", " ", "s", "e", "t", "u", "p", " ", "p", "r", "o", "c", "e", "s", "s">>

QueryFix ==
  <<"f", "i", "x", " ", "l", "o", "g", "i", "n", " ", "e", "r", "r", "o", "r">>

QueryStopWords ==
  <<"t", "o", " ", "b", "e", " ", "o", "r">>

QueryPassword ==
  <<"P", "a", "s", "s", "w", "o", "r", "d">>

Queries ==
  {QueryHowTo, QueryDefine, QueryRepeated, QuerySteps, QueryFix, QueryStopWords,
   QueryPassword, <<>>}

TextReset ==
  <<" ", "R", "e", "s", "e", "t", " ", "t", "h", "e", " ", "p", "a", "s", "s", "w", "o", "r", "d", " ">>

TextPhrase ==
  <<"h", "o", "w", " ", "r", "e", "s", "e", "t", " ", "p", "a", "s", "s", "w", "o", "r", "d", " ", "w", "o", "r", "k", "s">>

TextRepeated ==
  <<"r", "e", "s", "e", "t", " ", "r", "e", "s", "e", "t", " ", "p", "a", "s", "s", "w", "o", "r", "d", " ", "n", "o", "w">>

TextOther ==
  <<"N", "o", "t", "h", "i", "n", "g", " ", "r", "e", "l", "e", "v", "a", "n", "t", " ", "h", "e", "r", "e">>

TextDefine ==
  <<"D", "e", "f", "i", "n", "e", " ", "c", "o", "n", "f", "i", "g", "u", "r", "a", "t", "i", "o", "n", " ", "f", "i", "l", "e", "s">>

TextLong == Rep("x", LongTextLength)

SectionIntro ==
  <<"I", "n", "t", "r", "o">>

\* the metadata the indexer stores with a chunk, as far as the retriever reads it
Metadata(has_title, chunk_type, word_count, section_header) ==
  [has_title |-> has_title, chunk_type |-> chunk_type, word_count |-> word_count,
   section_header |-> section_header]

\* one result of the vector search
Result(result_text, metadata, distance) ==
  [text |-> result_text, metadata |-> metadata, distance |-> distance]

Results ==
  {Result(TextReset, Metadata(FALSE, "paragraph", None, <<>>), 10),
   Result(TextOther, Metadata(FALSE, "overflow", None, <<>>), 10),
   Result(TextOther, Metadata(FALSE, "overflow", None, <<>>), 40),
   Result(TextOther, Metadata(TRUE, "paragraph", Some(150), SectionIntro), 40),
   Result(TextOther, Metadata(FALSE, "sentence_group", Some(30), <<>>), 90),
   Result(TextPhrase, Metadata(FALSE, "sentence_group", Some(30), <<>>), 50),
   Result(TextRepeated, Metadata(FALSE, "paragraph", Some(30), <<>>), 120),
   Result(TextDefine, Metadata(TRUE, "paragraph", Some(30), SectionIntro), 40)}

\* results with a long text
LongResults ==
  {Result(TextLong, Metadata(FALSE, "paragraph", Some(150), <<>>), 40),
   Result(TextLong, Metadata(FALSE, "paragraph", Some(150), SectionIntro), 40)}

\* the vector search returns the nearest results first
Ascending(results) ==
  \A i \in 1..(Len(results) - 1) : results[i].distance <= results[i + 1].distance

\* the lists of at most n results the vector search can return: short
\* results, or long results
ResultLists(n) ==
  {results \in UNION {[1..k -> Results] \cup [1..k -> LongResults] : k \in 0..n} :
     Ascending(results)}

\* the vector store could not be reached, or the query raised
Unavailable == [available |-> FALSE, results |-> <<>>]

\* the vector store answered with the results
Available(results) == [available |-> TRUE, results |-> results]

\* `n_results=min(settings.retrieval_top_k * 2, 20)'
NResults(top_k) == IF top_k * 2 < 20 THEN top_k * 2 ELSE 20

\* the answers the vector store can give to a query for n results
VectorResults(n) ==
  {Unavailable} \cup
  {Available(results) : results \in ResultLists(IF n < MaxResults THEN n ELSE MaxResults)}

RetrieverInit ==
  /\ ChunkerIdle
  /\ QualityIdle
  /\ TokenizerIdle
  /\ UploadIdle
  /\ ChatIdle
  /\ query \in Queries
  /\ retrieval_top_k \in 1..MaxTopK
  /\ vector_results \in VectorResults(NResults(retrieval_top_k))
  /\ rpc = "retrieve_context"
  /\ query_data = None
  /\ retrieved_chunks = <<>>
  /\ ranked_chunks = <<>>
  /\ outcome = None

\* how a call that returns a value ends
Returned(value) == [raised |-> FALSE, value |-> value]

\* a variant of Handled: the exception leaves retrieve_context
Propagated == [raised |-> TRUE, value |-> <<>>]

\* `except Exception as e: ... return ""'
Handled == Returned(<<>>)

\* retrieve_context: the query is preprocessed
RetrievePreprocess ==
  /\ rpc = "retrieve_context"
  /\ query_data' = PreprocessQuery(query)
  /\ rpc' = "search"
  /\ UNCHANGED <<chat_vars, upload_vars, tokenizer_vars, chunker_vars, quality_vars, retriever_inputs, retrieved_chunks,
                 ranked_chunks, outcome>>

\* retrieve_context: the vector store raises; the exception is caught
SearchFails ==
  /\ rpc = "search"
  /\ ~vector_results.available
  /\ outcome' = Handled
  /\ rpc' = "done"
  /\ UNCHANGED <<chat_vars, upload_vars, tokenizer_vars, chunker_vars, quality_vars, retriever_inputs, query_data,
                 retrieved_chunks, ranked_chunks>>

\* retrieve_context: the vector store answers; the chunks are retrieved
Retrieve ==
  /\ rpc = "search"
  /\ vector_results.available
  /\ retrieved_chunks' = RetrieveRelevantChunks(vector_results.results, query_data)
  /\ rpc' = "retrieved"
  /\ UNCHANGED <<chat_vars, upload_vars, tokenizer_vars, chunker_vars, quality_vars, retriever_inputs, query_data, ranked_chunks,
                 outcome>>

\* retrieve_context: `if not retrieved_chunks: return ""'
ReturnEmpty ==
  /\ rpc = "retrieved"
  /\ retrieved_chunks = <<>>
  /\ outcome' = Returned(<<>>)
  /\ rpc' = "done"
  /\ UNCHANGED <<chat_vars, upload_vars, tokenizer_vars, chunker_vars, quality_vars, retriever_inputs, query_data,
                 retrieved_chunks, ranked_chunks>>

\* retrieve_context: the chunks are ranked
Rank ==
  /\ rpc = "retrieved"
  /\ retrieved_chunks # <<>>
  /\ ranked_chunks' = RankChunks(retrieved_chunks, query_data, retrieval_top_k)
  /\ rpc' = "format"
  /\ UNCHANGED <<chat_vars, upload_vars, tokenizer_vars, chunker_vars, quality_vars, retriever_inputs, query_data,
                 retrieved_chunks, outcome>>

\* retrieve_context: the context is formatted and returned
Format ==
  /\ rpc = "format"
  /\ outcome' = Returned(FormatContext(ranked_chunks, query_data))
  /\ rpc' = "done"
  /\ UNCHANGED <<chat_vars, upload_vars, tokenizer_vars, chunker_vars, quality_vars, retriever_inputs, query_data,
                 retrieved_chunks, ranked_chunks>>

RetrieverNext ==
  \/ RetrievePreprocess
  \/ SearchFails
  \/ Retrieve
  \/ ReturnEmpty
  \/ Rank
  \/ Format

RetrieverSpec == RetrieverInit /\ [][RetrieverNext]_vars

(***************************************************************************)
(* One call of score_chunk_quality, on a list of up to MaxQualityChunks    *)
(* chunks as the chunker returns them, with the feature on or off.  The    *)
(* similarities lie on both sides of the thresholds, some of them less     *)
(* than half a fourth decimal away from a threshold.                       *)
(***************************************************************************)
MaxQualityChunks == 3

\* settings.quality_score_threshold: the default 0.85, and 0.5
QualityThresholds == {(85 * SimilarityOne) \div 100, (50 * SimilarityOne) \div 100}

QualitySettings ==
  [enable_chunk_quality_score : BOOLEAN, quality_score_threshold : QualityThresholds]

\* the cosine similarities of adjacent chunks: 0.84996, 0.84994, 0.85,
\* 0.85004, 0.9, 0.49996, 0.1234 and -0.2
Similarities == {84996, 84994, 85000, 85004, 90000, 49996, 12340, -20000}

\* the i-th chunk of a document: the quality fields are not there yet
QualityChunk(i) ==
  [text     |-> <<"c", "h", "u", "n", "k">>,
   metadata |-> [chunk_index         |-> i - 1,
                 chunk_quality_score |-> AbsentValue,
                 low_quality_flag    |-> AbsentValue]]

QualityChunkLists == {[i \in 1..n |-> QualityChunk(i)] : n \in 0..MaxQualityChunks}

QualityInit ==
  /\ ChunkerIdle
  /\ RetrieverIdle
  /\ TokenizerIdle
  /\ UploadIdle
  /\ ChatIdle
  /\ quality_settings \in QualitySettings
  /\ quality_chunks \in QualityChunkLists
  /\ similarities \in [1..(IF Len(quality_chunks) < 2 THEN 0 ELSE Len(quality_chunks) - 1)
                         -> Similarities]
  /\ qpc = "score_chunk_quality"
  /\ embedded_texts = <<>>
  /\ scored_chunks = <<>>

\* score_chunk_quality: the feature is off or there are fewer than 2 chunks
ScoreSkipped ==
  /\ qpc = "score_chunk_quality"
  /\ ~quality_settings.enable_chunk_quality_score \/ Len(quality_chunks) < 2
  /\ scored_chunks' = ScoreChunkQuality(quality_chunks, similarities, quality_settings)
  /\ qpc' = "done"
  /\ UNCHANGED <<chat_vars, upload_vars, tokenizer_vars, chunker_vars, retriever_vars, quality_inputs, embedded_texts>>

\* `texts = [chunk["text"] for chunk in chunks]'
ChunkTexts(chunk_list) == [i \in 1..Len(chunk_list) |-> chunk_list[i].text]

\* score_chunk_quality: the embeddings are computed and every chunk gets its
\* score and its flag
ScoreChunks ==
  /\ qpc = "score_chunk_quality"
  /\ quality_settings.enable_chunk_quality_score
  /\ Len(quality_chunks) >= 2
  /\ embedded_texts' = Append(embedded_texts, ChunkTexts(quality_chunks))
  /\ scored_chunks' = ScoreChunkQuality(quality_chunks, similarities, quality_settings)
  /\ qpc' = "done"
  /\ UNCHANGED <<chat_vars, upload_vars, tokenizer_vars, chunker_vars, retriever_vars, quality_inputs>>

\* score_chunk_quality: get_embeddings raises, and so does the call; no chunk
\* has been touched
EmbeddingFails ==
  /\ qpc = "score_chunk_quality"
  /\ quality_settings.enable_chunk_quality_score
  /\ Len(quality_chunks) >= 2
  /\ embedded_texts' = Append(embedded_texts, ChunkTexts(quality_chunks))
  /\ qpc' = "raised"
  /\ UNCHANGED <<chat_vars, upload_vars, tokenizer_vars, chunker_vars, retriever_vars, quality_inputs, scored_chunks>>

QualityNext ==
  \/ ScoreSkipped
  \/ ScoreChunks
  \/ EmbeddingFails

QualitySpec == QualityInit /\ [][QualityNext]_vars

(***************************************************************************)
(* One call of get_tokenizer(settings.tokenizer_model) followed by one     *)
(* call of chunk_document(text).  The load of the tokenizer succeeds or    *)
(* raises; the text is a document of up to MaxTokenParagraphs paragraphs.  *)
(***************************************************************************)
MaxTokenParagraphs == 2

\* what AutoTokenizer.from_pretrained does
LoadResults == {"loaded", "OSError", "ValueError"}

\* settings: token_chunk_size is to chunk_size as 512 is to 1000
TokenSettings ==
  {[chunk_size |-> 24, chunk_overlap |-> 20, min_chunk_length |-> 3,
    token_chunk_size |-> 12, tokenizer_model |-> "bert-base-uncased"],
   [chunk_size |-> 24, chunk_overlap |-> 0, min_chunk_length |-> 10,
    token_chunk_size |-> 12, tokenizer_model |-> "bert-base-uncased"]}

TokenTexts ==
  UNION {{Join(BlankLine, ps) : ps \in [1..n -> ParagraphTexts]} : n \in 1..MaxTokenParagraphs}

TokenizerInit ==
  /\ ChunkerIdle
  /\ RetrieverIdle
  /\ QualityIdle
  /\ UploadIdle
  /\ ChatIdle
  /\ tokenizer_load \in LoadResults
  /\ token_settings \in TokenSettings
  /\ token_text \in TokenTexts
  /\ tpc = "get_tokenizer"
  /\ tokenizer = None
  /\ token_cleaned = <<>>
  /\ token_segments = <<>>
  /\ token_chunks = <<>>

\* get_tokenizer returns the tokenizer or None
GetTokenizerCall ==
  /\ tpc = "get_tokenizer"
  /\ tokenizer' = GetTokenizer(tokenizer_load, token_settings.tokenizer_model)
  /\ tpc' = IF GetTokenizer(tokenizer_load, token_settings.tokenizer_model).raised
            THEN "raised" ELSE "chunk_document"
  /\ UNCHANGED <<chat_vars, upload_vars, chunker_vars, retriever_vars, quality_vars, tokenizer_inputs,
                 token_cleaned, token_segments, token_chunks>>

\* chunk_document(text): the chunker is built from the settings and chunk_text
\* preprocesses the text; no step reads the tokenizer
TokenPreprocess ==
  /\ tpc = "chunk_document"
  /\ token_cleaned' = PreprocessText(token_text)
  /\ tpc' = "strategy"
  /\ UNCHANGED <<chat_vars, upload_vars, chunker_vars, retriever_vars, quality_vars, tokenizer_inputs,
                 tokenizer, token_segments, token_chunks>>

\* chunk_text: the text is segmented by the generic strategy; no step reads
\* the tokenizer
TokenStrategy ==
  /\ tpc = "strategy"
  /\ token_segments' = ChunkGenericText(NewChunker(token_settings, None, None, None),
                                        token_cleaned)
  /\ tpc' = "overlap"
  /\ UNCHANGED <<chat_vars, upload_vars, chunker_vars, retriever_vars, quality_vars, tokenizer_inputs,
                 tokenizer, token_cleaned, token_chunks>>

\* chunk_text: the segments are stitched and validated, and chunk_document
\* returns them; no step reads the tokenizer
TokenOverlapAndValidate ==
  /\ tpc = "overlap"
  /\ token_chunks' = AddOverlapAndValidate(NewChunker(token_settings, None, None, None),
                                           token_segments, token_cleaned)
  /\ tpc' = "done"
  /\ UNCHANGED <<chat_vars, upload_vars, chunker_vars, retriever_vars, quality_vars, tokenizer_inputs,
                 tokenizer, token_cleaned, token_segments>>

TokenizerNext ==
  \/ GetTokenizerCall
  \/ TokenPreprocess
  \/ TokenStrategy
  \/ TokenOverlapAndValidate

TokenizerSpec == TokenizerInit /\ [][TokenizerNext]_vars

(***************************************************************************)
(* The uploads and deletes of one company.  Up to MaxOperations requests   *)
(* are received.  A request uploads one of a few files under one of a few  *)
(* names, or deletes a name.  The texts are: two ordinary documents, a     *)
(* document with fewer than 5 word characters, a document shorter than     *)
(* min_chunk_length, a document of more chunks than                        *)
(* max_chunks_per_document, a blank document and an empty file.  The       *)
(* budgets are small so that the texts are short.  The embedding service   *)
(* may fail whenever score_chunk_quality calls it.                         *)
(***************************************************************************)
MaxOperations == 4

Filenames ==
  {[stem |-> "a", suffix |-> ".txt"],
   [stem |-> "b", suffix |-> ".pdf"],
   [stem |-> "c", suffix |-> ".exe"]}

TextA == <<"a", "a", "a", "a", "a", " ", "a", "a", "a", "a", "a", ".">>

TextB == <<"c", "c", "c", "c", "c", " ", "c", "c", "c", "c", "c", ".">>

\* 11 characters, 4 of them word characters
TextSymbols == <<"a", "b", " ", "-", "-", " ", "+", "+", " ", "c", "d">>

TextTiny == <<"a", "b", "c">>

\* four sentences of 12 characters: 51 characters
TextMany ==
  Join(<<" ">>, [i \in 1..4 |-> <<"b", "b", "b", "b", "b", " ", "b", "b", "b", "b", "b", ".">>])

TextBlank == <<" ", "\n">>

UploadTexts == {TextA, TextB, TextSymbols, TextTiny, TextMany, TextBlank, <<>>}

UploadSettings ==
  {[chunk_size |-> 24, chunk_overlap |-> 4, min_chunk_length |-> 10,
    max_chunks_per_document |-> 2, enable_chunk_quality_score |-> e,
    supported_file_types |-> {".txt", ".pdf", ".docx"}] : e \in BOOLEAN}

UploadInit ==
  /\ ChunkerIdle
  /\ RetrieverIdle
  /\ QualityIdle
  /\ TokenizerIdle
  /\ ChatIdle
  /\ upload_settings \in UploadSettings
  /\ operations = 0
  /\ EmptyStore
  /\ UploadFileIdle
  /\ DeleteFileIdle

UploadQuiet == upc \in {"idle", "done"}

DeleteQuiet == dpc \in {"idle", "done"}

\* upload_file is called
UploadBegin ==
  /\ UploadQuiet
  /\ operations < MaxOperations
  /\ operations' = operations + 1
  /\ \E filename \in Filenames, content \in UploadTexts :
       /\ up_filename' = filename
       /\ up_text' = content
  /\ upc' = "validate"
  /\ up_chunks' = <<>>
  /\ up_storage' = NoStorage
  /\ up_documents' = <<>>
  /\ up_response' = NoResponse
  /\ UNCHANGED <<chat_vars, chunker_vars, retriever_vars, quality_vars, tokenizer_vars,
                 upload_settings, upload_store, delete_call>>

\* upload_file: the file type is not supported, the file is empty, or the
\* text is blank (the HTTPException(400) of the blank text is raised inside
\* the `try' whose `except Exception' answers 500)
UploadRejected ==
  /\ upc = "validate"
  /\ \/ ~IsSupportedFileType(upload_settings, up_filename)
     \/ Strip(up_text) = <<>>
  /\ up_response' =
       IF ~IsSupportedFileType(upload_settings, up_filename)
       THEN HTTPException(400, "Unsupported file type")
       ELSE IF up_text = <<>> THEN HTTPException(400, "Empty file uploaded")
       ELSE HTTPException(500, "Failed to parse document content")
  /\ upc' = "done"
  /\ UNCHANGED <<chat_vars, chunker_vars, retriever_vars, quality_vars, tokenizer_vars,
                 upload_settings, operations, upload_store, delete_call,
                 up_filename, up_text, up_chunks, up_storage, up_documents>>

\* upload_file: the file is accepted and its text extracted
UploadParsed ==
  /\ upc = "validate"
  /\ IsSupportedFileType(upload_settings, up_filename)
  /\ Strip(up_text) # <<>>
  /\ upc' = "chunking"
  /\ UNCHANGED <<chat_vars, chunker_vars, retriever_vars, quality_vars, tokenizer_vars,
                 upload_settings, operations, upload_store, delete_call,
                 up_filename, up_text, up_chunks, up_storage, up_documents, up_response>>

\* chunk_results of the upload under way
ChunkResults == SmartChunkResults(upload_settings, up_text, DocumentTypeOf(up_filename))

\* upload_file: smart chunking gives chunks, score_chunk_quality returns (it
\* changes no text), and the chunks are truncated
SmartChunking ==
  /\ upc = "chunking"
  /\ ChunkResults # <<>>
  /\ up_chunks' = ChunkTexts(Truncated(ChunkResults, upload_settings.max_chunks_per_document))
  /\ upc' = "store_chunks"
  /\ UNCHANGED <<chat_vars, chunker_vars, retriever_vars, quality_vars, tokenizer_vars,
                 upload_settings, operations, upload_store, delete_call,
                 up_filename, up_text, up_storage, up_documents, up_response>>

\* upload_file: an exception is raised in the `try' of smart chunking, by
\* get_embeddings in score_chunk_quality or by `raise HTTPException(400, ...)'
\* for no chunk, and `except Exception' falls back to basic chunking
FallbackChunking ==
  /\ upc = "chunking"
  /\ \/ ChunkResults = <<>>
     \/ upload_settings.enable_chunk_quality_score /\ Len(ChunkResults) >= 2
  /\ IF FallbackChunks(upload_settings, up_text) = <<>>
     THEN /\ up_response' = HTTPException(400, "Document produced no valid chunks")
          /\ upc' = "done"
          /\ up_chunks' = <<>>
     ELSE /\ up_chunks' = FallbackChunks(upload_settings, up_text)
          /\ upc' = "store_chunks"
          /\ up_response' = up_response
  /\ UNCHANGED <<chat_vars, chunker_vars, retriever_vars, quality_vars, tokenizer_vars,
                 upload_settings, operations, upload_store, delete_call,
                 up_filename, up_text, up_storage, up_documents>>

\* store_chunks finds chunks of the document's hash
StoreChunksDuplicate ==
  /\ upc = "store_chunks"
  /\ ExistingChunks(collection, DocumentHash(up_text)) # {}
  /\ up_storage' = [status |-> "duplicate", document_hash |-> DocumentHash(up_text),
                    chunks_stored |-> 0]
  /\ up_response' = Response(200, "duplicate", "")
  /\ upc' = "done"
  /\ UNCHANGED <<chat_vars, chunker_vars, retriever_vars, quality_vars, tokenizer_vars,
                 upload_settings, operations, upload_store, delete_call,
                 up_filename, up_text, up_chunks, up_documents>>

\* store_chunks adds the chunks
StoreChunksNew ==
  /\ upc = "store_chunks"
  /\ ExistingChunks(collection, DocumentHash(up_text)) = {}
  /\ collection' = collection \cup StoredChunks(up_chunks, DocumentHash(up_text))
  /\ up_storage' = [status |-> "success", document_hash |-> DocumentHash(up_text),
                    chunks_stored |->
                      Cardinality(StoredChunks(up_chunks, DocumentHash(up_text)))]
  /\ upc' = "save_file"
  /\ UNCHANGED <<chat_vars, chunker_vars, retriever_vars, quality_vars, tokenizer_vars,
                 upload_settings, operations, documents_dir, metadata_file, delete_call,
                 up_filename, up_text, up_chunks, up_documents, up_response>>

\* save_original_file
SaveOriginalFile ==
  /\ upc = "save_file"
  /\ documents_dir' =
       documents_dir \cup {OriginalFilePath(up_storage.document_hash, up_filename)}
  /\ upc' = "save_metadata"
  /\ UNCHANGED <<chat_vars, chunker_vars, retriever_vars, quality_vars, tokenizer_vars,
                 upload_settings, operations, collection, metadata_file, delete_call,
                 up_filename, up_text, up_chunks, up_storage, up_documents, up_response>>

\* save_document_metadata loads the existing metadata
SaveMetadataLoad ==
  /\ upc = "save_metadata"
  /\ up_documents' = LoadedDocuments(metadata_file)
  /\ upc' = "write_metadata"
  /\ UNCHANGED <<chat_vars, chunker_vars, retriever_vars, quality_vars, tokenizer_vars,
                 upload_settings, operations, upload_store, delete_call,
                 up_filename, up_text, up_chunks, up_storage, up_response>>

\* save_document_metadata writes the updated metadata; upload_file answers
SaveMetadataWrite ==
  /\ upc = "write_metadata"
  /\ metadata_file' =
       MetadataFile(ReplacedMetadata(
         up_documents,
         DocumentInfo(up_filename, up_storage.document_hash, up_storage.chunks_stored,
                      OriginalFilePath(up_storage.document_hash, up_filename))))
  /\ up_response' = Response(200, "success", "")
  /\ upc' = "done"
  /\ UNCHANGED <<chat_vars, chunker_vars, retriever_vars, quality_vars, tokenizer_vars,
                 upload_settings, operations, collection, documents_dir, delete_call,
                 up_filename, up_text, up_chunks, up_storage, up_documents>>

\* delete_file is called
DeleteBegin ==
  /\ DeleteQuiet
  /\ operations < MaxOperations
  /\ operations' = operations + 1
  /\ \E filename \in Filenames : del_filename' = filename
  /\ dpc' = "find"
  /\ del_target' = None
  /\ del_result' = NoDeletion
  /\ del_documents' = <<>>
  /\ del_response' = NoResponse
  /\ UNCHANGED <<chat_vars, chunker_vars, retriever_vars, quality_vars, tokenizer_vars,
                 upload_settings, upload_store, upload_call>>

\* delete_file: get_company_documents, and the search for the filename
DeleteFind ==
  /\ dpc = "find"
  /\ del_target' = TargetDocument(LoadedDocuments(metadata_file), del_filename)
  /\ IF TargetDocument(LoadedDocuments(metadata_file), del_filename) = None
     THEN /\ del_response' = HTTPException(404, "Document not found")
          /\ dpc' = "done"
     ELSE /\ del_response' = del_response
          /\ dpc' = "delete_chunks"
  /\ UNCHANGED <<chat_vars, chunker_vars, retriever_vars, quality_vars, tokenizer_vars,
                 upload_settings, operations, upload_store, upload_call,
                 del_filename, del_result, del_documents>>

\* delete_document_chunks
DeleteChunks ==
  /\ dpc = "delete_chunks"
  /\ collection' = collection \ ExistingChunks(collection, del_target[1].document_hash)
  /\ del_result' =
       [status        |-> IF ExistingChunks(collection, del_target[1].document_hash) = {}
                          THEN "not_found" ELSE "success",
        deleted_count |-> Cardinality(ExistingChunks(collection, del_target[1].document_hash))]
  /\ dpc' = "delete_file"
  /\ UNCHANGED <<chat_vars, chunker_vars, retriever_vars, quality_vars, tokenizer_vars,
                 upload_settings, operations, documents_dir, metadata_file, upload_call,
                 del_filename, del_target, del_documents, del_response>>

\* delete_original_file
DeleteOriginalFile ==
  /\ dpc = "delete_file"
  /\ documents_dir' =
       documents_dir \ {OriginalFilePath(del_target[1].document_hash, del_filename)}
  /\ dpc' = "remove_metadata"
  /\ UNCHANGED <<chat_vars, chunker_vars, retriever_vars, quality_vars, tokenizer_vars,
                 upload_settings, operations, collection, metadata_file, upload_call,
                 del_filename, del_target, del_result, del_documents, del_response>>

\* remove_document_metadata: there is no metadata file and delete_file
\* answers, or the metadata is loaded
RemoveMetadataLoad ==
  /\ dpc = "remove_metadata"
  /\ IF metadata_file.exists
     THEN /\ del_documents' = metadata_file.documents
          /\ dpc' = "write_metadata"
          /\ del_response' = del_response
     ELSE /\ del_documents' = <<>>
          /\ dpc' = "done"
          /\ del_response' = Response(200, "deleted", "")
  /\ UNCHANGED <<chat_vars, chunker_vars, retriever_vars, quality_vars, tokenizer_vars,
                 upload_settings, operations, upload_store, upload_call,
                 del_filename, del_target, del_result>>

\* remove_document_metadata writes the metadata without the document;
\* delete_file answers unless the file is left to be unlinked
RemoveMetadataWrite ==
  /\ dpc = "write_metadata"
  /\ metadata_file' =
       MetadataFile(RemainingMetadata(del_documents, del_target[1].document_hash))
  /\ IF RemainingMetadata(del_documents, del_target[1].document_hash) = <<>>
     THEN dpc' = "unlink" /\ del_response' = del_response
     ELSE dpc' = "done" /\ del_response' = Response(200, "deleted", "")
  /\ UNCHANGED <<chat_vars, chunker_vars, retriever_vars, quality_vars, tokenizer_vars,
                 upload_settings, operations, collection, documents_dir, upload_call,
                 del_filename, del_target, del_result, del_documents>>

\* remove_document_metadata unlinks the metadata file it wrote empty
RemoveMetadataUnlink ==
  /\ dpc = "unlink"
  /\ metadata_file' = NoMetadataFile
  /\ del_response' = Response(200, "deleted", "")
  /\ dpc' = "done"
  /\ UNCHANGED <<chat_vars, chunker_vars, retriever_vars, quality_vars, tokenizer_vars,
                 upload_settings, operations, collection, documents_dir, upload_call,
                 del_filename, del_target, del_result, del_documents>>

\* upload_file is called while no delete_file is under way
UploadAlone == DeleteQuiet /\ UploadBegin

\* delete_file is called while no upload_file is under way
DeleteAlone == UploadQuiet /\ DeleteBegin

\* requests one after the other
UploadNext ==
  \/ UploadAlone
  \/ UploadRejected
  \/ UploadParsed
  \/ SmartChunking
  \/ FallbackChunking
  \/ StoreChunksDuplicate
  \/ StoreChunksNew
  \/ SaveOriginalFile
  \/ SaveMetadataLoad
  \/ SaveMetadataWrite
  \/ DeleteAlone
  \/ DeleteFind
  \/ DeleteChunks
  \/ DeleteOriginalFile
  \/ RemoveMetadataLoad
  \/ RemoveMetadataWrite
  \/ RemoveMetadataUnlink

UploadSpec == UploadInit /\ [][UploadNext]_vars

(***************************************************************************)
(* The same requests when they overlap.  upload_file is a coroutine of the *)
(* event loop and delete_file runs on a thread of the thread pool, so the  *)
(* steps of one upload and of one delete interleave in any order; two      *)
(* uploads do not overlap.  Up to MaxConcurrentOperations requests are     *)
(* received.                                                               *)
(***************************************************************************)
MaxConcurrentOperations == 3

\* upload_file is called, whatever delete_file is doing
UploadConcurrent == operations < MaxConcurrentOperations /\ UploadBegin

\* delete_file is called, whatever upload_file is doing
DeleteConcurrent == operations < MaxConcurrentOperations /\ DeleteBegin

ConcurrentNext ==
  \/ UploadConcurrent
  \/ UploadRejected
  \/ UploadParsed
  \/ SmartChunking
  \/ FallbackChunking
  \/ StoreChunksDuplicate
  \/ StoreChunksNew
  \/ SaveOriginalFile
  \/ SaveMetadataLoad
  \/ SaveMetadataWrite
  \/ DeleteConcurrent
  \/ DeleteFind
  \/ DeleteChunks
  \/ DeleteOriginalFile
  \/ RemoveMetadataLoad
  \/ RemoveMetadataWrite
  \/ RemoveMetadataUnlink

ConcurrentSpec == UploadInit /\ [][ConcurrentNext]_vars

(***************************************************************************)
(* One call of generate_streaming_response.  Each yield of the generator   *)
(* is a step.  The model process is unreachable, or it writes one of a few  *)
(* outputs (nothing, blanks, a word, sentences, more words than a buffer)   *)
(* and ends normally, with a non-zero return code, in TimeoutExpired or in  *)
(* an exception; retrieve_context returns a context or the empty string.    *)
(***************************************************************************)
\* buffer_size=3
StreamBufferSize == 3

StdoutTexts ==
  <<<<>>, <<" ", "\n">>, <<"O", "k">>, <<"H", "i", ".", " ", "O", "k">>,
    <<"a", " ", "b", " ", "c", " ", "d">>,
    <<"Y", "e", "s", ",", " ", "i", "t", "\n", "i", "s", ".">>>>

LlmBehaviours ==
  {NoLlm}
  \cup [running : {TRUE}, stdout : {StdoutTexts[i] : i \in 1..Len(StdoutTexts)},
        failure : {"none", "return_code", "TimeoutExpired", "Exception"}]

\* retrieve_context returns the formatted context, or "" when nothing is found
\* or an exception was handled
RetrievedContexts == {Returned(<<>>), Returned(<<"D", "o", "c">>)}

\* context = "No specific context available."
GenericContext == <<"N", "o", " ", "s", "p", "e", "c", "i", "f", "i", "c", " ", "c", "o", "n", "t", "e", "x", "t", " ", "a", "v", "a", "i", "l", "a", "b", "l", "e", ".">>

ChatInit ==
  /\ ChunkerIdle
  /\ RetrieverIdle
  /\ QualityIdle
  /\ TokenizerIdle
  /\ UploadIdle
  /\ chat_llm \in LlmBehaviours
  /\ chat_retrieved \in RetrievedContexts
  /\ cpc = "start"
  /\ events = <<>>
  /\ context = <<>>
  /\ chat_stream = NoStream
  /\ chat_position = 0
  /\ full_response = <<>>
  /\ chunk_count = 0

\* the events of the outer `except Exception'
InternalError ==
  <<FormatSseJson([type |-> "error"], "error"),
    FormatSseMessage(<<"E", "R", "R", "O", "R">>, "done")>>

\* `yield format_sse_json({"type": "status", ...}, "status")'
SendInitialStatus ==
  /\ cpc = "start"
  /\ events' = Append(events, FormatSseJson([type |-> "status",
                                             stage |-> "retrieving_context"], "status"))
  /\ cpc' = "retrieve_context"
  /\ UNCHANGED <<chat_inputs, context, chat_stream, chat_position, full_response,
                 chunk_count>>
  /\ UNCHANGED <<chunker_vars, retriever_vars, quality_vars, tokenizer_vars, upload_vars>>

\* `context = retrieve_context(message, company_id)' and `if not context:'
RetrieveContext ==
  /\ cpc = "retrieve_context"
  /\ IF chat_retrieved.raised
     THEN /\ events' = events \o InternalError
          /\ cpc' = "returned"
          /\ UNCHANGED context
     ELSE IF chat_retrieved.value = <<>>
     THEN /\ events' = Append(events, FormatSseJson([type |-> "warning"], "warning"))
          /\ context' = GenericContext
          /\ cpc' = "context_retrieved"
     ELSE /\ context' = chat_retrieved.value
          /\ cpc' = "context_retrieved"
          /\ UNCHANGED events
  /\ UNCHANGED <<chat_inputs, chat_stream, chat_position, full_response, chunk_count>>
  /\ UNCHANGED <<chunker_vars, retriever_vars, quality_vars, tokenizer_vars, upload_vars>>

\* the second status event
SendContextStatus ==
  /\ cpc = "context_retrieved"
  /\ events' = Append(events, FormatSseJson([type |-> "status",
                                             stage |-> "generating_response",
                                             context_length |-> Len(context)], "status"))
  /\ cpc' = "build_prompt"
  /\ UNCHANGED <<chat_inputs, context, chat_stream, chat_position, full_response,
                 chunk_count>>
  /\ UNCHANGED <<chunker_vars, retriever_vars, quality_vars, tokenizer_vars, upload_vars>>

\* build_prompt, the response_start event, and the call of
\* stream_mistral_response_buffered(prompt, buffer_size=3)
SendResponseStart ==
  /\ cpc = "build_prompt"
  /\ events' = Append(events, FormatSseJson([type |-> "response_start"], "response_start"))
  /\ chat_stream' = StreamMistralResponseBuffered(chat_llm, StreamBufferSize)
  /\ cpc' = "streaming"
  /\ UNCHANGED <<chat_inputs, context, chat_position, full_response, chunk_count>>
  /\ UNCHANGED <<chunker_vars, retriever_vars, quality_vars, tokenizer_vars, upload_vars>>

\* one pass of `for chunk in stream_mistral_response_buffered(...)'
StreamChunk ==
  /\ cpc = "streaming"
  /\ chat_position < Len(chat_stream.value)
  /\ chat_position' = chat_position + 1
  /\ LET chunk == chat_stream.value[chat_position + 1]
     IN IF Strip(chunk) # <<>>
        THEN /\ full_response' = full_response \o chunk
             /\ chunk_count' = chunk_count + 1
             /\ events' = Append(events, FormatSseJson([type |-> "chunk",
                                                        content |-> chunk,
                                                        chunk_id |-> chunk_count + 1],
                                                       "chunk"))
        ELSE UNCHANGED <<full_response, chunk_count, events>>
  /\ UNCHANGED <<chat_inputs, cpc, context, chat_stream>>
  /\ UNCHANGED <<chunker_vars, retriever_vars, quality_vars, tokenizer_vars, upload_vars>>

\* the end of the loop: the iteration is exhausted and response_complete is
\* sent, or it raised and `except Exception' sends an error event and returns
StreamEnd ==
  /\ cpc = "streaming"
  /\ chat_position = Len(chat_stream.value)
  /\ IF chat_stream.raised
     THEN /\ events' = Append(events, FormatSseJson([type |-> "error"], "error"))
          /\ cpc' = "returned"
     ELSE /\ events' = Append(events, FormatSseJson([type |-> "response_complete",
                                                     full_response |-> Strip(full_response),
                                                     chunk_count |-> chunk_count],
                                                    "response_complete"))
          /\ cpc' = "response_complete"
  /\ UNCHANGED <<chat_inputs, context, chat_stream, chat_position, full_response,
                 chunk_count>>
  /\ UNCHANGED <<chunker_vars, retriever_vars, quality_vars, tokenizer_vars, upload_vars>>

\* `yield format_sse_message("DONE", "done")'
SendDone ==
  /\ cpc = "response_complete"
  /\ events' = Append(events, FormatSseMessage(<<"D", "O", "N", "E">>, "done"))
  /\ cpc' = "returned"
  /\ UNCHANGED <<chat_inputs, context, chat_stream, chat_position, full_response,
                 chunk_count>>
  /\ UNCHANGED <<chunker_vars, retriever_vars, quality_vars, tokenizer_vars, upload_vars>>

ChatNext ==
  \/ SendInitialStatus
  \/ RetrieveContext
  \/ SendContextStatus
  \/ SendResponseStart
  \/ StreamChunk
  \/ StreamEnd
  \/ SendDone

ChatSpec == ChatInit /\ [][ChatNext]_vars

(***************************************************************************)
(* Properties of the chunker.                                              *)
(***************************************************************************)
Done == pc = "done"

Segmented == pc \in {"overlap", "done"}

\* the indices of a list
Indices(list) == 1..Len(list)

\* the text the strategy gave a unit of the returned or overlapped list, before
\* any overlap was added: chunk_index is the unit's position in chunks
SegmentText(unit) == chunks[unit.metadata.chunk_index + 1].text

\* one word without whitespace that alone is longer than the budget
IrreducibleWord(t, size) == Len(t) > size /\ \A i \in Indices(t) : t[i] \notin Space

WhitespaceOnly(t) == \A i \in Indices(t) : t[i] \in Space

\* C1 as stated: every returned unit has length <= chunk_size + chunk_overlap,
\* unless its text before stitching is one word longer than chunk_size
\* (chunk_size > 0 and chunk_overlap >= 0 being the chunker's).
C1_LengthWithinBudgetPlusOverlap ==
  (Done /\ chunker.chunk_size > 0 /\ chunker.chunk_overlap >= 0) =>
    \A i \in Indices(final_chunks) :
      \/ Len(final_chunks[i].text) <= chunker.chunk_size + chunker.chunk_overlap
      \/ IrreducibleWord(SegmentText(final_chunks[i]), chunker.chunk_size)

\* C1 amended: every returned unit has length <= chunk_size + chunk_overlap + 1
\* (the overlap fragment and the space that joins it), chunk_size and
\* chunk_overlap being those the chunker holds, unless its text before
\* stitching is one word longer than chunk_size.
C1_LengthWithinBudgetPlusOverlapAndSpace ==
  (Done /\ chunker.chunk_size > 0 /\ chunker.chunk_overlap >= 0) =>
    \A i \in Indices(final_chunks) :
      \/ Len(final_chunks[i].text) <= chunker.chunk_size + chunker.chunk_overlap + 1
      \/ IrreducibleWord(SegmentText(final_chunks[i]), chunker.chunk_size)

\* a returned unit that is not an irreducible word attains the amended bound
C1_Witness ==
  /\ Done /\ chunker.chunk_size > 0 /\ chunker.chunk_overlap > 0
  /\ \E i \in Indices(final_chunks) :
       /\ Len(final_chunks[i].text) = chunker.chunk_size + chunker.chunk_overlap + 1
       /\ ~IrreducibleWord(SegmentText(final_chunks[i]), chunker.chunk_size)

\* C2: every unit of the segmentation (before stitching) has length <=
\* chunk_size, except a unit that is one word longer than chunk_size.
C2_SegmentsWithinBudget ==
  Segmented =>
    \A i \in Indices(chunks) :
      \/ Len(chunks[i].text) <= chunker.chunk_size
      \/ IrreducibleWord(chunks[i].text, chunker.chunk_size)

\* a segmentation with a paragraph unit that fills the budget exactly, a
\* sentence group, and an overflow unit that is an irreducible word
C2_Witness ==
  /\ Segmented
  /\ \E i \in Indices(chunks) :
       /\ chunks[i].metadata.chunk_type = "paragraph"
       /\ Len(chunks[i].text) = chunker.chunk_size
  /\ \E i \in Indices(chunks) : chunks[i].metadata.chunk_type = "sentence_group"
  /\ \E i \in Indices(chunks) :
       /\ chunks[i].metadata.chunk_type = "overflow"
       /\ IrreducibleWord(chunks[i].text, chunker.chunk_size)

\* C3 as stated: a non-empty text of length >= min_chunk_length yields at
\* least one unit.
C3_LongEnoughTextYieldsUnit ==
  (Done /\ text # <<>> /\ Len(text) >= chunker.min_chunk_length) =>
    Len(final_chunks) >= 1

\* the stripped paragraphs of the normalized text
CleanedParagraphs ==
  {Strip(ParagraphBreaksSplit(cleaned_text)[k]) :
     k \in Indices(ParagraphBreaksSplit(cleaned_text))}

\* a paragraph that is not skipped, fits the budget and passes validation alone
SolidParagraph(p) ==
  /\ Len(p) >= chunker.min_chunk_length
  /\ Len(p) <= chunker.chunk_size
  /\ WordCharCount(p) >= MinWordChars

\* C3 amended: a text whose normalized form has a blank-line-separated
\* paragraph that is at least min_chunk_length long, no longer than chunk_size
\* and holds at least 5 word characters yields at least one unit.
C3_SolidParagraphYieldsUnit ==
  (Done /\ \E p \in CleanedParagraphs : SolidParagraph(p)) =>
    Len(final_chunks) >= 1

\* a document with such a paragraph, and with a paragraph that is skipped
C3_Witness ==
  /\ Done
  /\ \E p \in CleanedParagraphs : SolidParagraph(p)
  /\ \E p \in CleanedParagraphs : p # <<>> /\ Len(p) < chunker.min_chunk_length
  /\ Len(final_chunks) >= 1

\* C4: an empty or whitespace-only text yields the empty list, for every
\* document type and overlap (no operation of the call is partial: the call of
\* every input runs to its end).
C4_WhitespaceYieldsNothing ==
  (Done /\ WhitespaceOnly(text)) => final_chunks = <<>>

\* a finished pdf call on whitespace with a form feed, with overlap configured
C4_Witness ==
  /\ Done
  /\ text # <<>> /\ WhitespaceOnly(text)
  /\ \E i \in Indices(text) : text[i] = "\f"
  /\ document_type = "pdf"
  /\ chunker.chunk_overlap > 0
  /\ final_chunks = <<>>

\* the characters of a text that are not whitespace, in order
NonSpace(t) == SelectSeq(t, LAMBDA c : c \notin Space)

\* the stripped paragraphs of the normalized text, in order
CleanedParagraphSeq ==
  [k \in Indices(ParagraphBreaksSplit(cleaned_text)) |->
     Strip(ParagraphBreaksSplit(cleaned_text)[k])]

\* the paragraphs of the normalized text that are not dropped for being
\* shorter than min_chunk_length
KeptParagraphs ==
  SelectSeq(CleanedParagraphSeq, LAMBDA p : Len(p) >= chunker.min_chunk_length)

\* the returned units' texts without their overlap prefix, in order
SegmentTexts == [i \in Indices(final_chunks) |-> SegmentText(final_chunks[i])]

\* C5 as stated, for the calls in which validation drops no unit: the returned
\* units' texts, overlap prefix removed, concatenated in order are the
\* normalized text without its dropped short paragraphs, up to whitespace; no
\* other character is lost, changed or duplicated.
C5_UnitsReconstructSource ==
  (Done /\ Len(final_chunks) = Len(chunks)) =>
    NonSpace(Flatten(SegmentTexts)) = NonSpace(Flatten(KeptParagraphs))

\* the paragraphs of the raw document, stripped
RawParagraphs ==
  [k \in Indices(ParagraphBreaksSplit(text)) |-> Strip(ParagraphBreaksSplit(text)[k])]

\* the number of words of a text
WordCount(t) == Len(Split(t))

\* a document of exactly three paragraphs: the first and the third fit the
\* budget, are not shorter than min_chunk_length and hold 5 word characters;
\* the second alone exceeds the budget, also when normalized, and is more than
\* one word
ThreeParagraphScenario ==
  /\ Len(RawParagraphs) = 3
  /\ \A k \in {1, 3} :
       /\ Len(RawParagraphs[k]) <= chunker.chunk_size
       /\ Len(PreprocessText(RawParagraphs[k])) >= chunker.min_chunk_length
       /\ WordCharCount(RawParagraphs[k]) >= MinWordChars
  /\ Len(PreprocessText(RawParagraphs[2])) > chunker.chunk_size
  /\ WordCount(RawParagraphs[2]) > 1

OffsetsOrdered(list) ==
  /\ \A i \in Indices(list) : list[i].metadata.start_char <= list[i].metadata.end_char
  /\ \A i \in Indices(list) : \A j \in Indices(list) :
       i < j => list[i].metadata.start_char <= list[j].metadata.start_char

\* C7: in the list the segmentation produces and in the list that is returned,
\* every unit has start_char <= end_char and start_char is non-decreasing
\* along the list, also across the hand-over between the paragraph, sentence
\* and word level.
C7_OffsetsOrdered ==
  /\ Segmented => OffsetsOrdered(chunks)
  /\ Done => OffsetsOrdered(final_chunks)

\* a returned list with a paragraph unit, then an overflow unit, then a
\* sentence group, then a paragraph unit again, the offsets strictly increasing
C7_Witness ==
  /\ Done
  /\ \E i \in Indices(final_chunks) : \E j \in Indices(final_chunks) :
     \E k \in Indices(final_chunks) : \E l \in Indices(final_chunks) :
       /\ i < j /\ j < k /\ k < l
       /\ final_chunks[i].metadata.chunk_type = "paragraph"
       /\ final_chunks[j].metadata.chunk_type = "overflow"
       /\ final_chunks[k].metadata.chunk_type = "sentence_group"
       /\ final_chunks[l].metadata.chunk_type = "paragraph"
       /\ final_chunks[i].metadata.start_char < final_chunks[j].metadata.start_char
       /\ final_chunks[j].metadata.start_char < final_chunks[k].metadata.start_char
       /\ final_chunks[k].metadata.start_char < final_chunks[l].metadata.start_char

\* the positions of a window where the text after a sentence boundary
\* (terminators followed by whitespace) starts
BoundaryEnds(w) ==
  {i \in 2..Len(w) :
     /\ w[i] \notin Space
     /\ \E k \in 1..(i - 2) : w[k] \in Term /\ \A m \in (k + 1)..(i - 1) : w[m] \in Space}

\* the text of a window after its last sentence boundary
AfterLastBoundary(w) == Strip(SubSeq(w, SetMax(BoundaryEnds(w)), Len(w)))

\* the last five words of a window
LastFiveWords(w) == Join(<<" ">>, LastN(Split(w), OverlapWords))

\* the overlap fragment in the order C8 states: sentence boundary, more than 5
\* words, shorter than 20 characters, whole window
FragmentBoundaryFirst(w) ==
  IF BoundaryEnds(w) # {} THEN AfterLastBoundary(w)
  ELSE IF WordCount(w) > OverlapWords THEN LastFiveWords(w)
  ELSE IF Len(w) < MinOverlapLength THEN <<>>
  ELSE w

\* the overlap fragment with the length test first
FragmentLengthFirst(w) ==
  IF Len(w) < MinOverlapLength THEN <<>>
  ELSE IF BoundaryEnds(w) # {} THEN AfterLastBoundary(w)
  ELSE IF WordCount(w) > OverlapWords THEN LastFiveWords(w)
  ELSE w

\* the trimmed trailing window of the unit before the (1-based) i-th
WindowBefore(i) == Strip(LastN(chunks[i - 1].text, chunker.chunk_overlap))

\* the text of the i-th stitched unit when the fragment is f
Stitched(f, i) == IF f = <<>> THEN chunks[i].text ELSE f \o <<" ">> \o chunks[i].text

\* stitching has run over a non-empty list
StitchingRan == Done /\ chunker.chunk_overlap > 0 /\ chunks # <<>>

\* C8 as stated: the fragment prepended to every unit after the first follows
\* the priority sentence boundary, then more than 5 words (the last 5), then
\* shorter than 20 characters (discarded), then the whole window.
C8_FragmentBoundaryFirst ==
  StitchingRan =>
    \A i \in 2..Len(chunks) :
      overlapped[i].text = Stitched(FragmentBoundaryFirst(WindowBefore(i)), i)

\* C8 amended: a window shorter than 20 characters is discarded whatever it
\* contains; otherwise, if the window contains a sentence boundary, the
\* fragment is the text after the last boundary; otherwise, if it has more
\* than 5 words, the last 5 words; otherwise the whole window.
C8_FragmentLengthFirst ==
  StitchingRan =>
    \A i \in 2..Len(chunks) :
      overlapped[i].text = Stitched(FragmentLengthFirst(WindowBefore(i)), i)

\* a stitched list where a window shorter than 20 characters with a sentence
\* boundary was discarded and a longer window gave a fragment shorter than
\* itself
C8_Witness ==
  /\ StitchingRan
  /\ \E i \in 2..Len(chunks) :
       /\ Len(WindowBefore(i)) < MinOverlapLength
       /\ BoundaryEnds(WindowBefore(i)) # {}
       /\ overlapped[i].text = chunks[i].text
  /\ \E i \in 2..Len(chunks) :
       /\ Len(WindowBefore(i)) >= MinOverlapLength
       /\ overlapped[i].text # chunks[i].text
       /\ Len(overlapped[i].text) < Len(WindowBefore(i)) + 1 + Len(chunks[i].text)

\* C9 as stated: when the caller passes an overlap width <= 0, every returned
\* unit's text is its segmentation text, nothing prepended.
C9_NoOverlapRequestedNoStitching ==
  (Done /\ arg_chunk_overlap # None /\ arg_chunk_overlap[1] <= 0) =>
    \A i \in Indices(final_chunks) : final_chunks[i].text = SegmentText(final_chunks[i])

\* the trimmed text of a unit is at least min_chunk_length long and holds at
\* least 5 word characters
PassesValidation(unit) ==
  /\ Len(Strip(unit.text)) >= chunker.min_chunk_length
  /\ Cardinality({k \in Indices(Strip(unit.text)) : Strip(unit.text)[k] \in WordChars})
       >= MinWordChars

\* C10: the returned list is the stitched list restricted to the units whose
\* trimmed stitched text is at least min_chunk_length long and holds at least
\* 5 word characters, in the same order.
C10_ValidationOnStitchedList ==
  Done => final_chunks = SelectSeq(overlapped, PassesValidation)

\* a returned list that lacks a unit of the stitched list and holds a unit
\* whose text before stitching would not have passed validation
C10_Witness ==
  /\ Done
  /\ Len(final_chunks) < Len(overlapped)
  /\ \E i \in Indices(final_chunks) :
       /\ final_chunks[i].text # SegmentText(final_chunks[i])
       /\ ~PassesValidation([text |-> SegmentText(final_chunks[i])])

(***************************************************************************)
(* Properties of the retriever.                                            *)
(***************************************************************************)
\* the query has been preprocessed
Preprocessed == rpc \in {"search", "retrieved", "format", "done"}

\* the intent categories in the order they are tried, and their word lists
IntentOrder == <<"question", "instruction", "definition", "troubleshooting">>

IntentWords ==
  <<QuestionWords, InstructionWords, DefinitionWords, TroubleshootingWords>>

\* the positions in IntentOrder of the categories one of whose words is
\* contained in the lowercased original query
MatchingIntents ==
  {k \in 1..Len(IntentOrder) :
     \E w \in 1..Len(IntentWords[k]) :
       Contains(IntentWords[k][w], ToLower(query_data.original))}

\* C11: the intent of a query is the first category, in the order question,
\* instruction, definition, troubleshooting, that has a word contained in
\* the lowercased original query, and information when none has; so a query
\* that contains a question word is a question.
C11_IntentIsFirstMatchingCategory ==
  Preprocessed =>
    /\ MatchingIntents = {} => query_data.intent = "information"
    /\ \A k \in MatchingIntents :
         (\A j \in MatchingIntents : k <= j) => query_data.intent = IntentOrder[k]
    /\ 1 \in MatchingIntents => query_data.intent = "question"

\* "How to reset a password?" holds a question word and an instruction
\* phrase, and is a question
C11_Witness ==
  /\ Preprocessed
  /\ query = QueryHowTo
  /\ {1, 2} \subseteq MatchingIntents
  /\ query_data.intent = "question"

\* the words of the expanded query that are no stop words and are longer
\* than 2 characters
QualifyingTokens ==
  {word \in {Split(query_data.expanded)[k] : k \in 1..Len(Split(query_data.expanded))} :
     word \notin StopWords /\ Len(word) > 2}

\* C12: key_terms is the set of the tokens of the expanded query that are no
\* stop words and are longer than 2 characters: every such token is a key
\* term, no other token is, and no term occurs in key_terms more than once.
C12_KeyTermsAreASet ==
  Preprocessed =>
    /\ {query_data.key_terms[i] : i \in 1..Len(query_data.key_terms)} = QualifyingTokens
    /\ \A i, j \in 1..Len(query_data.key_terms) :
         i # j => query_data.key_terms[i] # query_data.key_terms[j]

\* the vector store answered and _retrieve_relevant_chunks has returned
Retrieved == rpc \in {"retrieved", "format", "done"} /\ vector_results.available

\* a key term of the query occurs in the lowercased text
Matched(chunk_text) ==
  \E k \in 1..Len(query_data.key_terms) :
    Contains(query_data.key_terms[k], ToLower(chunk_text))

\* the vector ranks of the candidates that reach ranking
RetrievedRanks == {retrieved_chunks[i].vector_rank : i \in 1..Len(retrieved_chunks)}

\* the vector ranks of the results that match a key term or are nearer than 0.5
MatchedOrNearRanks ==
  {r - 1 : r \in {k \in 1..Len(vector_results.results) :
                    \/ Matched(vector_results.results[k].text)
                    \/ vector_results.results[k].distance < KeepDistance}}

\* C13 as stated: for every query, one with no key terms included, every
\* candidate that reaches ranking matches a key term or has a distance below
\* 0.5, and a candidate with neither is dropped.
C13_ReachingRankingMatchedOrNear ==
  Retrieved => RetrievedRanks \subseteq MatchedOrNearRanks

\* C13: when the query has key terms the candidates that reach ranking are
\* exactly those that match a key term or have a distance below 0.5, in
\* their incoming order; when the query has no key terms the filter does not
\* run and every candidate reaches ranking.
C13_FilterRunsOnlyWithKeyTerms ==
  Retrieved =>
    /\ query_data.key_terms # <<>> => RetrievedRanks = MatchedOrNearRanks
    /\ query_data.key_terms = <<>> =>
         RetrievedRanks = {r - 1 : r \in 1..Len(vector_results.results)}
    /\ Len(retrieved_chunks) = Cardinality(RetrievedRanks)
    /\ \A i \in 1..(Len(retrieved_chunks) - 1) :
         retrieved_chunks[i].vector_rank < retrieved_chunks[i + 1].vector_rank

\* with key terms, one candidate is kept for its distance alone, one for its
\* match alone, and one with neither is dropped
C13_Witness ==
  /\ Retrieved
  /\ query_data.key_terms # <<>>
  /\ \E i, j \in 1..Len(retrieved_chunks) :
       /\ ~Matched(retrieved_chunks[i].text)
       /\ retrieved_chunks[i].vector_distance < KeepDistance
       /\ Matched(retrieved_chunks[j].text)
       /\ retrieved_chunks[j].vector_distance >= KeepDistance
  /\ Len(retrieved_chunks) < Len(vector_results.results)

\* _rank_chunks has returned
Ranked == rpc \in {"format", "done"} /\ ranked_chunks # <<>>

\* the number of key terms of the query that occur in the lowercased text
MatchCount(chunk_text) ==
  Cardinality({k \in 1..Len(query_data.key_terms) :
                 Contains(query_data.key_terms[k], ToLower(chunk_text))})

\* there are several key terms and their space-joined phrase occurs in the text
HasPhrase(chunk_text) ==
  /\ Len(query_data.key_terms) > 1
  /\ Contains(Join(<<" ">>, query_data.key_terms), ToLower(chunk_text))

\* the word count of a candidate: its metadata's, else the words of its text
CandidateWords(chunk) ==
  IF chunk.metadata.word_count = None THEN Len(Split(chunk.text))
  ELSE chunk.metadata.word_count[1]

\* 1 when the condition holds, else 0
Indicator(condition) == IF condition THEN 1 ELSE 0

\* a thousand times n times the score the formula of the claim gives a
\* candidate, n being the number of key terms, or 1 when there is none
ScoreByFormula(chunk, n) ==
    6 * n * (IF chunk.vector_distance < 100 THEN 100 - chunk.vector_distance ELSE 0)
  + 300 * MatchCount(chunk.text)
  + 90 * n * Indicator(HasPhrase(chunk.text))
  + 100 * n * Indicator(query_data.intent \in {"definition", "information"}
                        /\ chunk.metadata.has_title)
  + 50 * n * Indicator(chunk.metadata.chunk_type = "paragraph")
  + 20 * n * Indicator(chunk.metadata.chunk_type = "sentence_group")
  - 100 * n * Indicator(CandidateWords(chunk) < 20)
  + 50 * n * Indicator(query_data.length > 5 /\ CandidateWords(chunk) > 100)

\* the number of key terms, or 1 when there is none
TermCount == IF query_data.key_terms = <<>> THEN 1 ELSE Len(query_data.key_terms)

\* C14: the composite score of a candidate is 0.6 * max(0, 1 - distance)
\* + 0.3 * (matches / key terms + 0.3 for the exact phrase) + 0.1 for a title
\* under a definition or information intent + 0.05 for a paragraph or 0.02
\* for a sentence group - 0.1 for fewer than 20 words + 0.05 for more than
\* 100 words under a query of more than 5 words.
C14_ScoreIsTheFormula ==
  Ranked =>
    \A i \in 1..Len(ranked_chunks) :
      ranked_chunks[i].relevance_score[1] * 1000 * TermCount
        = ScoreScale * ScoreByFormula(ranked_chunks[i], TermCount)

\* one ranked candidate holds every key term and their phrase, another has
\* fewer than 20 words
C14_Witness ==
  /\ Ranked
  /\ \E i, j \in 1..Len(ranked_chunks) :
       /\ HasPhrase(ranked_chunks[i].text)
       /\ MatchCount(ranked_chunks[i].text) = Len(query_data.key_terms)
       /\ CandidateWords(ranked_chunks[j]) < 20
       /\ ranked_chunks[j].metadata.chunk_type = "paragraph"
       /\ ranked_chunks[j].relevance_score[1] > 0

\* candidate a is ranked before candidate b: its score is higher, or the
\* scores are equal and it came earlier from the vector search
RankedBefore(a, b) ==
  \/ a.relevance_score[1] > b.relevance_score[1]
  \/ /\ a.relevance_score[1] = b.relevance_score[1]
     /\ a.vector_rank < b.vector_rank

\* the smaller of two numbers
Smaller(a, b) == IF a < b THEN a ELSE b

\* the vector ranks of the ranked candidates
RankedRanks == {ranked_chunks[i].vector_rank : i \in 1..Len(ranked_chunks)}

\* the survivor with a vector rank, with the score the ranker gives it
ScoredSurvivor(rank) ==
  LET chunk == CHOOSE c \in {retrieved_chunks[i] : i \in 1..Len(retrieved_chunks)} :
                 c.vector_rank = rank
  IN [chunk EXCEPT !.relevance_score = Some(RelevanceScore(chunk, query_data))]

\* C15: the ranker returns the first top_k of the survivors sorted by
\* descending score, survivors of equal score in their vector_rank order:
\* min(top_k, survivors) candidates, each a survivor with its score, each
\* ranked before the next, and every survivor left out ranked after the last.
C15_FirstTopKByScoreStable ==
  Ranked =>
    /\ Len(ranked_chunks) = Smaller(retrieval_top_k, Len(retrieved_chunks))
    /\ \A i \in 1..Len(ranked_chunks) :
         /\ ranked_chunks[i].vector_rank \in RetrievedRanks
         /\ ranked_chunks[i] = ScoredSurvivor(ranked_chunks[i].vector_rank)
    /\ \A i \in 1..(Len(ranked_chunks) - 1) :
         RankedBefore(ranked_chunks[i], ranked_chunks[i + 1])
    /\ \A rank \in RetrievedRanks \ RankedRanks :
         RankedBefore(ranked_chunks[Len(ranked_chunks)], ScoredSurvivor(rank))

\* three survivors, the two of the highest score tied and returned in their
\* vector_rank order, the third cut off by top_k = 2 although it came first
\* from the vector search
C15_Witness ==
  /\ Ranked
  /\ retrieval_top_k = 2
  /\ Len(retrieved_chunks) = 3
  /\ ranked_chunks[1].relevance_score = ranked_chunks[2].relevance_score
  /\ ranked_chunks[1].vector_rank > 0

\* the query has key terms and no candidate matches any of them
NoCandidateMatches ==
  /\ Ranked
  /\ query_data.key_terms # <<>>
  /\ \A k \in 1..Len(vector_results.results) : ~Matched(vector_results.results[k].text)

\* the ranked candidates are in ascending distance order
AscendingDistance ==
  \A i \in 1..(Len(ranked_chunks) - 1) :
    ranked_chunks[i].vector_distance <= ranked_chunks[i + 1].vector_distance

\* a thousand times what a candidate's metadata adds to its score
MetadataBonus(chunk) ==
    100 * Indicator(query_data.intent \in {"definition", "information"}
                    /\ chunk.metadata.has_title)
  + 50 * Indicator(chunk.metadata.chunk_type = "paragraph")
  + 20 * Indicator(chunk.metadata.chunk_type = "sentence_group")
  - 100 * Indicator(CandidateWords(chunk) < 20)
  + 50 * Indicator(query_data.length > 5 /\ CandidateWords(chunk) > 100)

\* C16 as stated: when the query has key terms and no candidate matches any
\* of them, the ranked candidates all have a distance below 0.5 and are in
\* ascending distance order, whatever their metadata.
C16_UnmatchedInDistanceOrder ==
  NoCandidateMatches =>
    /\ \A i \in 1..Len(ranked_chunks) : ranked_chunks[i].vector_distance < 50
    /\ AscendingDistance

\* C16: when the query has key terms and no candidate matches any of them,
\* the ranked candidates all have a distance below 0.5, and one that is
\* ranked before another is not farther than it unless its metadata adds
\* more to the score; so candidates of equal metadata bonus are in
\* ascending distance order.
C16_UnmatchedInDistanceOrderUpToMetadata ==
  NoCandidateMatches =>
    /\ \A i \in 1..Len(ranked_chunks) : ranked_chunks[i].vector_distance < 50
    /\ \A i, j \in 1..Len(ranked_chunks) :
         (i < j /\ MetadataBonus(ranked_chunks[i]) <= MetadataBonus(ranked_chunks[j]))
           => ranked_chunks[i].vector_distance <= ranked_chunks[j].vector_distance

\* results at 0.1, 0.4 and 0.9 with no match and top_k = 2: the first two,
\* of equal metadata, are returned in that order
C16_Witness ==
  /\ NoCandidateMatches
  /\ retrieval_top_k = 2
  /\ Len(vector_results.results) = 3
  /\ vector_results.results[3].distance = 90
  /\ Len(ranked_chunks) = 2
  /\ ranked_chunks[1].vector_distance = 10
  /\ ranked_chunks[2].vector_distance = 40
  /\ ranked_chunks[1].metadata = ranked_chunks[2].metadata

\* retrieve_context has ended
RetrieveDone == rpc = "done"

\* C17: retrieve_context never raises, and returns the empty string when the
\* vector store call fails, when the search returns no candidate, and when
\* every candidate is filtered out.
C17_NeverRaisesEmptyOnNothing ==
  RetrieveDone =>
    /\ ~outcome.raised
    /\ ~vector_results.available => outcome.value = <<>>
    /\ vector_results.results = <<>> => outcome.value = <<>>
    /\ retrieved_chunks = <<>> => outcome.value = <<>>

\* the search returned candidates, every one of them was filtered out, and
\* the call returned the empty string
C17_Witness ==
  /\ RetrieveDone
  /\ vector_results.available
  /\ vector_results.results # <<>>
  /\ retrieved_chunks = <<>>
  /\ outcome = [raised |-> FALSE, value |-> <<>>]

\* C18: the context string retrieve_context returns is, truncation marker
\* included, at most max_context_length (4000) characters long.
C18_ContextWithinCap ==
  RetrieveDone => Len(outcome.value) <= MaxContextLength

\* the header the intent selects
HeaderOf(intent) ==
  CASE intent \in {"instruction", "troubleshooting"} -> ProceduresHeader
    [] intent = "definition" -> DefinitionsHeader
    [] OTHER -> InformationHeader

\* forty dashes
FortyDashes == [k \in 1..40 |-> "-"]

RECURSIVE Rendering(_)
\* the rendering of the ranked candidates from the i-th on: for each one its
\* section line if it has a label, its trimmed text, and a separator if
\* another candidate follows
Rendering(i) ==
  IF i > Len(ranked_chunks) THEN <<>>
  ELSE (IF ranked_chunks[i].metadata.section_header # <<>>
        THEN BlankLine \o <<"[", "S", "e", "c", "t", "i", "o", "n", ":", " ">>
               \o ranked_chunks[i].metadata.section_header \o <<"]">>
        ELSE <<>>)
       \o BlankLine \o Strip(ranked_chunks[i].text)
       \o (IF i < Len(ranked_chunks) THEN BlankLine \o FortyDashes ELSE <<>>)
       \o Rendering(i + 1)

\* where in a string a run of exactly forty dashes starts
SeparatorStarts(s) ==
  {i \in 1..(Len(s) - 39) :
     /\ \A k \in 0..39 : s[i + k] = "-"
     /\ i > 1 => s[i - 1] # "-"
     /\ i + 40 <= Len(s) => s[i + 40] # "-"}

\* the call has returned the context of a ranked list whose rendering is
\* under the cap
RenderedUnderCap ==
  /\ RetrieveDone
  /\ ranked_chunks # <<>>
  /\ Len(HeaderOf(query_data.intent)) + Len(Rendering(1)) <= 4000

\* C19: the context of n ranked candidates whose rendering is under the cap
\* is the header selected by intent, then for each candidate in ranked order
\* a [Section: label] line only if it has a section label and its trimmed
\* text, with exactly n - 1 forty-dash separators, one between consecutive
\* candidates and none after the last.
C19_ContextIsHeaderSectionsSeparators ==
  RenderedUnderCap =>
    /\ outcome.value = HeaderOf(query_data.intent) \o Rendering(1)
    /\ Cardinality(SeparatorStarts(outcome.value)) = Len(ranked_chunks) - 1

\* three candidates, one with a section label and one without, one whose
\* text is trimmed
C19_Witness ==
  /\ RenderedUnderCap
  /\ Len(ranked_chunks) = 3
  /\ \E i, j, k \in 1..3 :
       /\ ranked_chunks[i].metadata.section_header # <<>>
       /\ ranked_chunks[j].metadata.section_header = <<>>
       /\ Strip(ranked_chunks[k].text) # ranked_chunks[k].text
  /\ outcome.value # <<>>

(***************************************************************************)
(* Properties of the quality scorer.                                       *)
(***************************************************************************)
\* score_chunk_quality has scored a list of at least 2 chunks
QualityScored ==
  /\ qpc = "done"
  /\ quality_settings.enable_chunk_quality_score
  /\ Len(quality_chunks) >= 2

\* C20: after quality scoring of at least 2 chunks, chunk 0 has the score
\* None and the flag False, and every later chunk i has as stored score the
\* similarity of chunks i - 1 and i and has the flag True exactly when that
\* stored score is below the threshold.
C20_StoredScoreIsSimilarityFlagBelowThreshold ==
  QualityScored =>
    /\ scored_chunks[1].metadata.chunk_quality_score.kind = "None"
    /\ scored_chunks[1].metadata.low_quality_flag = [kind |-> "bool", value |-> 0]
    /\ \A i \in 2..Len(scored_chunks) :
         /\ scored_chunks[i].metadata.chunk_quality_score
              = [kind |-> "float", value |-> similarities[i - 1]]
         /\ scored_chunks[i].metadata.low_quality_flag.value = 1
              <=> scored_chunks[i].metadata.chunk_quality_score.value
                    < quality_settings.quality_score_threshold

\* score_chunk_quality has returned
QualityReturned == qpc = "done"

\* the feature is off or the list has fewer than 2 chunks
QualityNoOp ==
  ~quality_settings.enable_chunk_quality_score \/ Len(quality_chunks) < 2

\* a chunk with its score and flag fields blanked
WithoutQualityFields(chunk) ==
  [chunk EXCEPT !.metadata.chunk_quality_score = AbsentValue,
                !.metadata.low_quality_flag = AbsentValue]

\* C21: quality scoring keeps the number, the order and the text of the
\* chunks and every metadata field but the score and the flag; when the
\* feature is off or the list has fewer than 2 chunks the list is returned
\* unchanged, no field added, and get_embeddings is not called.
C21_OnlyScoreAndFlagChange ==
  QualityReturned =>
    /\ Len(scored_chunks) = Len(quality_chunks)
    /\ \A i \in 1..Len(scored_chunks) :
         /\ scored_chunks[i].text = quality_chunks[i].text
         /\ WithoutQualityFields(scored_chunks[i]) = WithoutQualityFields(quality_chunks[i])
    /\ QualityNoOp => (scored_chunks = quality_chunks /\ embedded_texts = <<>>)

\* a single chunk with the feature on comes back without score and flag, and
\* no embedding was asked for
C21_Witness ==
  /\ QualityReturned
  /\ quality_settings.enable_chunk_quality_score
  /\ Len(quality_chunks) = 1
  /\ scored_chunks[1].metadata.chunk_quality_score = AbsentValue
  /\ embedded_texts = <<>>


\* the paragraphs of a list that hold a character
NonEmptyParagraphs(paragraphs) == SelectSeq(paragraphs, LAMBDA p : p # <<>>)

\* C24 as stated: normalization preserves paragraph breaks: the normalized
\* text has as many paragraphs for the paragraph splitter as the raw text has
\* paragraphs separated by blank lines, whatever character a paragraph ends
\* with ('.', '!' and '?' included).
C24_ParagraphBreaksPreserved ==
  Segmented =>
    Len(NonEmptyParagraphs(CleanedParagraphSeq)) = Len(NonEmptyParagraphs(RawParagraphs))

\* a unit's has_overlap flag, as a reader of the metadata sees it
\* (`metadata.get("has_overlap", False)')
HasOverlapFlag(unit) ==
  IF "has_overlap" \in DOMAIN unit.metadata THEN unit.metadata.has_overlap ELSE FALSE

\* a non-empty fragment and one space were prepended to the unit's text
FragmentPrepended(unit) ==
  LET n == Len(unit.text) - Len(SegmentText(unit))
  IN /\ n >= 2
     /\ unit.text[n] = " "
     /\ SubSeq(unit.text, n + 1, Len(unit.text)) = SegmentText(unit)

\* C25 as stated: in every list chunk_document returns, a unit's has_overlap
\* flag is true exactly when a non-empty fragment of the previous unit plus
\* one space was prepended to its text; it is false for unit 0 and for a unit
\* whose overlap fragment was discarded.
C25_HasOverlapIffPrepended ==
  Done =>
    \A i \in Indices(final_chunks) :
      HasOverlapFlag(final_chunks[i]) <=> FragmentPrepended(final_chunks[i])

(***************************************************************************)
(* Properties of get_tokenizer and of the chunking that follows it.        *)
(***************************************************************************)
TokenizerUnavailable == tokenizer_load # "loaded"

\* the chunker of the call of chunk_document
TokenChunker == NewChunker(token_settings, None, None, None)

\* the stripped paragraphs of the normalized text that the strategy keeps
TokenParagraphs ==
  SelectSeq([k \in Indices(ParagraphBreaksSplit(PreprocessText(token_text))) |->
               Strip(ParagraphBreaksSplit(PreprocessText(token_text))[k])],
            LAMBDA p : Len(p) >= TokenChunker.min_chunk_length)

\* get_tokenizer has ended by returning None
ReportedUnavailable == tpc \notin {"get_tokenizer", "raised"} /\ tokenizer = Returned(None)

C22_HandedChunksWithinLimit ==
  Len(up_chunks) <= upload_settings.max_chunks_per_document

\* the upload under way got as far as smart chunking
ReachedChunking ==
  /\ upc \notin {"idle", "validate"}
  /\ IsSupportedFileType(upload_settings, up_filename)
  /\ Strip(up_text) # <<>>

\* smart chunking of the uploaded document yields no valid unit
NoValidSmartUnit == ReachedChunking /\ ChunkResults = <<>>

\* C26 as stated: if smart chunking of an uploaded document yields no valid
\* unit, no step of the upload changes the vector index, the documents
\* directory or the metadata file, and upload_file answers HTTP 400 with
\* 'Document produced no valid chunks after smart processing'.
C26_NoValidUnitRejected ==
  [][(upc # "done" /\ NoValidSmartUnit) =>
       /\ UNCHANGED upload_store
       /\ upc' = "done" =>
            up_response' =
              HTTPException(400, "Document produced no valid chunks after smart processing")]_vars

\* a document of this extracted text is currently stored in the collection
Stored(content) == \E c \in collection : c.document_hash = DocumentHash(content)

\* upload_file has not called store_chunks yet, or is calling it
BeforeStorage == upc \in {"validate", "chunking", "store_chunks"}

ListedHashes ==
  {metadata_file.documents[k].document_hash : k \in 1..Len(metadata_file.documents)}

\* no request is being served
Quiescent == UploadQuiet /\ DeleteQuiet

\* C28 as stated: after any sequence of uploads and deletes, every chunk in
\* the collection belongs to a document listed in the metadata file.
C28_EveryChunkOfAListedDocument ==
  Quiescent => \A c \in collection : c.document_hash \in ListedHashes

\* the latest upload and the latest delete have both succeeded, and were of
\* different documents under different names (with at most
\* MaxConcurrentOperations requests, no other request has removed or replaced
\* either document)
UploadAndDeleteFinished ==
  /\ upc = "done" /\ up_response = Response(200, "success", "")
  /\ dpc = "done" /\ del_response = Response(200, "deleted", "")
  /\ del_target[1].document_hash # up_storage.document_hash
  /\ del_filename # up_filename

\* C30 as stated: when an upload and a delete of the same company overlap, no
\* metadata update is lost: once both have finished, the metadata file lists
\* the uploaded document and does not list the deleted one.
C30_NoMetadataUpdateLost ==
  UploadAndDeleteFinished =>
    /\ up_storage.document_hash \in ListedHashes
    /\ del_target[1].document_hash \notin ListedHashes

(***************************************************************************)
(* Properties of the streamed answer.                                      *)
(***************************************************************************)
\* the positions of the events of a type
EventsOfType(event_type) == {i \in 1..Len(events) : events[i].event = event_type}

\* the generator has returned: the stream has ended
StreamEnded == cpc = "returned"

\* C29: every streamed answer follows the event protocol, on the failure
\* paths as well: the first event is a status event; a chunk event comes after
\* response_start and never after response_complete or error; a done event is
\* the last event so far, so there is at most one; and when the stream has
\* ended its last event is a done event.
C29_EventProtocol ==
  /\ events # <<>> => events[1].event = "status"
  /\ \A i \in EventsOfType("chunk") :
       /\ \E j \in EventsOfType("response_start") : j < i
       /\ \A j \in EventsOfType("response_complete") \cup EventsOfType("error") : i < j
  /\ \A i \in EventsOfType("done") : i = Len(events)
  /\ StreamEnded => events # <<>> /\ events[Len(events)].event = "done"

\* a stream has ended on a failure path: nothing was retrieved, the model
\* process wrote words and then failed, the words and the failure went out as
\* three chunk events, and response_complete and done followed
C29_Witness ==
  /\ StreamEnded
  /\ chat_retrieved.value = <<>>
  /\ chat_llm.failure # "none"
  /\ chunk_count = 3
  /\ StartsWithError(events[Len(events) - 2].data.content)
  /\ EventsOfType("warning") # {}
  /\ events[Len(events) - 1].event = "response_complete"
  /\ events[Len(events)].event = "done"

=============================================================================
